---------------------------- MODULE Spec2Model ----------------------------
(***************************************************************************)
(* RoleColorAI: the lexical scoring engine (resume_scorer.py over the      *)
(* lexicon of rolecolor_framework.py), the LaTeX template renderer         *)
(* (latex_generator.py) and the structural validator (e2b_runner.py,       *)
(* latex_generator.py).                                                    *)
(*                                                                         *)
(* Text is a sequence of one-character strings.  Weights are kept in       *)
(* tenths (1.5 is 15) and raw scores in hundredths, so that all the        *)
(* arithmetic is exact; a normalized score is the fraction num/den.        *)
(*                                                                         *)
(* Four specifications share the variables: SpecScore, SpecRender,         *)
(* SpecValidate and SpecCalls.  Each exercises one component and leaves    *)
(* the variables of the others idle.                                       *)
(***************************************************************************)
EXTENDS Integers, Sequences, FiniteSets, TLC

VARIABLES
  resume_text,        \* the text handed to score_resume
  scores,             \* the dictionary score_resume returned, or Pending
  extraction,         \* what the extraction call does: it raises, or its reply
  rewritten_summary,  \* generate_latex_from_resume's rewritten_summary
  dominant_role,      \* generate_latex_from_resume's dominant_role
  generation_type,    \* the generation mode chosen: "Full Resume" or "Summary Only"
  latex_code,         \* the string the renderer returned, or Pending
  document,           \* the string handed to the validators
  hash_seed,          \* what the interpreter salts string hashes with, given
                      \* as the order in which its sets of names iterate
  validation,         \* the report validate_latex returned last, or Pending
  previous_validation,\* the report it returned the time before, or Pending
  syntax_check,       \* the pair validate_latex_syntax returned, or Pending
  lexicon,            \* the module global ROLECOLOR_KEYWORDS as the callers find it
  template,           \* the module global LATEX_TEMPLATE as the callers find it
  calls,              \* per caller: the call it makes and how far the call is
  compiled_pdf,       \* the session's compiled_pdf: None, or the PDF data
  conversation_history, \* the ChatAssistant's list of messages
  context,            \* the ChatAssistant's context dictionary
  chat_call,          \* the last call of ChatAssistant.chat: what it found, sent
                      \* and returned; None before the first call
  sandbox,            \* the E2B sandbox of compile_latex_in_sandbox
  pc,                 \* where compile_latex_in_sandbox stands
  sandbox_result      \* what compile_latex_in_sandbox returned, or Pending

scorerVars == <<resume_text, scores>>

rendererVars == <<extraction, rewritten_summary, dominant_role, generation_type, latex_code>>

validatorVars == <<document, hash_seed, validation, previous_validation, syntax_check>>

callVars == <<lexicon, template, calls>>

chatVars == <<conversation_history, context, chat_call>>

sandboxVars == <<sandbox, pc, sandbox_result>>

interactiveVars == <<compiled_pdf, chatVars, sandboxVars>>

vars == <<scorerVars, rendererVars, validatorVars, callVars, interactiveVars>>

\* Python's None, where a string may stand
None == "None"

\* a call that has not returned yet
Pending == [pending |-> TRUE]

\* Python's None, where the data of a PDF may stand
NoPdf == [no_pdf |-> TRUE]

\* the variables of the validator while another component is exercised
ValidatorIdle ==
  /\ document = None
  /\ hash_seed = None
  /\ validation = Pending
  /\ previous_validation = Pending
  /\ syntax_check = Pending

\* the variables of the concurrent callers while one component is exercised
CallsIdle ==
  /\ lexicon = None
  /\ template = None
  /\ calls = None

\* the variables of the chat assistant while another component is exercised
ChatIdle ==
  /\ conversation_history = None
  /\ context = None
  /\ chat_call = None

\* the variables of the sandbox run while another component is exercised
SandboxIdle ==
  /\ sandbox = None
  /\ pc = None
  /\ sandbox_result = Pending

\* the variables of the session, the chat and the sandbox while the scorer,
\* the validator or the callers are exercised
InteractiveIdle ==
  /\ compiled_pdf = NoPdf
  /\ ChatIdle
  /\ SandboxIdle

(***************************************************************************)
(* rolecolor_framework.py: the lexicon, in declaration order.              *)
(***************************************************************************)
ROLECOLOR_KEYWORDS ==
  <<
    [role |-> "Builder", keywords |-> <<
      [keyword |-> <<"s","t","r","a","t","e","g","y">>, weight |-> 15],
      [keyword |-> <<"s","t","r","a","t","e","g","i","c">>, weight |-> 15],
      [keyword |-> <<"v","i","s","i","o","n">>, weight |-> 15],
      [keyword |-> <<"v","i","s","i","o","n","a","r","y">>, weight |-> 15],
      [keyword |-> <<"r","o","a","d","m","a","p">>, weight |-> 13],
      [keyword |-> <<"a","r","c","h","i","t","e","c","t","u","r","e">>, weight |-> 14],
      [keyword |-> <<"a","r","c","h","i","t","e","c","t">>, weight |-> 14],
      [keyword |-> <<"i","n","n","o","v","a","t","e">>, weight |-> 15],
      [keyword |-> <<"i","n","n","o","v","a","t","i","o","n">>, weight |-> 15],
      [keyword |-> <<"i","n","n","o","v","a","t","i","v","e">>, weight |-> 14],
      [keyword |-> <<"c","r","e","a","t","e">>, weight |-> 10],
      [keyword |-> <<"c","r","e","a","t","e","d">>, weight |-> 10],
      [keyword |-> <<"d","e","s","i","g","n">>, weight |-> 12],
      [keyword |-> <<"d","e","s","i","g","n","e","d">>, weight |-> 12],
      [keyword |-> <<"d","e","v","e","l","o","p">>, weight |-> 10],
      [keyword |-> <<"d","e","v","e","l","o","p","e","d">>, weight |-> 10],
      [keyword |-> <<"b","u","i","l","d">>, weight |-> 12],
      [keyword |-> <<"b","u","i","l","t">>, weight |-> 12],
      [keyword |-> <<"l","e","a","d">>, weight |-> 13],
      [keyword |-> <<"l","e","d">>, weight |-> 13],
      [keyword |-> <<"p","i","o","n","e","e","r">>, weight |-> 15],
      [keyword |-> <<"p","i","o","n","e","e","r","e","d">>, weight |-> 15],
      [keyword |-> <<"t","r","a","n","s","f","o","r","m">>, weight |-> 14],
      [keyword |-> <<"t","r","a","n","s","f","o","r","m","e","d">>, weight |-> 14],
      [keyword |-> <<"s","p","e","a","r","h","e","a","d">>, weight |-> 14],
      [keyword |-> <<"s","p","e","a","r","h","e","a","d","e","d">>, weight |-> 14],
      [keyword |-> <<"s","c","a","l","a","b","l","e">>, weight |-> 13],
      [keyword |-> <<"s","c","a","l","e">>, weight |-> 12],
      [keyword |-> <<"s","c","a","l","e","d">>, weight |-> 12],
      [keyword |-> <<"g","r","o","w","t","h">>, weight |-> 13],
      [keyword |-> <<"e","x","p","a","n","d">>, weight |-> 12],
      [keyword |-> <<"e","x","p","a","n","d","e","d">>, weight |-> 12],
      [keyword |-> <<"f","u","t","u","r","e","-","p","r","o","o","f">>, weight |-> 13],
      [keyword |-> <<"s","y","s","t","e","m">>, weight |-> 10],
      [keyword |-> <<"p","l","a","t","f","o","r","m">>, weight |-> 11],
      [keyword |-> <<"f","r","a","m","e","w","o","r","k">>, weight |-> 12],
      [keyword |-> <<"f","o","u","n","d","a","t","i","o","n">>, weight |-> 12],
      [keyword |-> <<"i","n","i","t","i","a","t","i","v","e">>, weight |-> 12] >>],
    [role |-> "Enabler", keywords |-> <<
      [keyword |-> <<"c","o","l","l","a","b","o","r","a","t","e">>, weight |-> 15],
      [keyword |-> <<"c","o","l","l","a","b","o","r","a","t","e","d">>, weight |-> 15],
      [keyword |-> <<"c","o","l","l","a","b","o","r","a","t","i","o","n">>, weight |-> 15],
      [keyword |-> <<"c","o","l","l","a","b","o","r","a","t","i","v","e">>, weight |-> 14],
      [keyword |-> <<"c","o","o","r","d","i","n","a","t","e">>, weight |-> 14],
      [keyword |-> <<"c","o","o","r","d","i","n","a","t","e","d">>, weight |-> 14],
      [keyword |-> <<"c","o","o","r","d","i","n","a","t","i","o","n">>, weight |-> 14],
      [keyword |-> <<"f","a","c","i","l","i","t","a","t","e">>, weight |-> 15],
      [keyword |-> <<"f","a","c","i","l","i","t","a","t","e","d">>, weight |-> 15],
      [keyword |-> <<"c","o","m","m","u","n","i","c","a","t","e">>, weight |-> 13],
      [keyword |-> <<"c","o","m","m","u","n","i","c","a","t","e","d">>, weight |-> 13],
      [keyword |-> <<"c","o","m","m","u","n","i","c","a","t","i","o","n">>, weight |-> 13],
      [keyword |-> <<"p","r","e","s","e","n","t">>, weight |-> 11],
      [keyword |-> <<"p","r","e","s","e","n","t","e","d">>, weight |-> 11],
      [keyword |-> <<"s","t","a","k","e","h","o","l","d","e","r">>, weight |-> 14],
      [keyword |-> <<"s","t","a","k","e","h","o","l","d","e","r","s">>, weight |-> 14],
      [keyword |-> <<"c","r","o","s","s","-","f","u","n","c","t","i","o","n","a","l">>, weight |-> 15],
      [keyword |-> <<"c","r","o","s","s"," ","f","u","n","c","t","i","o","n","a","l">>, weight |-> 15],
      [keyword |-> <<"b","r","i","d","g","e">>, weight |-> 13],
      [keyword |-> <<"b","r","i","d","g","e","d">>, weight |-> 13],
      [keyword |-> <<"i","n","t","e","g","r","a","t","e">>, weight |-> 12],
      [keyword |-> <<"i","n","t","e","g","r","a","t","e","d">>, weight |-> 12],
      [keyword |-> <<"i","n","t","e","g","r","a","t","i","o","n">>, weight |-> 12],
      [keyword |-> <<"s","u","p","p","o","r","t">>, weight |-> 12],
      [keyword |-> <<"s","u","p","p","o","r","t","e","d">>, weight |-> 12],
      [keyword |-> <<"e","n","a","b","l","e">>, weight |-> 14],
      [keyword |-> <<"e","n","a","b","l","e","d">>, weight |-> 14],
      [keyword |-> <<"e","m","p","o","w","e","r">>, weight |-> 14],
      [keyword |-> <<"e","m","p","o","w","e","r","e","d">>, weight |-> 14],
      [keyword |-> <<"m","e","n","t","o","r">>, weight |-> 15],
      [keyword |-> <<"m","e","n","t","o","r","e","d">>, weight |-> 15],
      [keyword |-> <<"m","e","n","t","o","r","i","n","g">>, weight |-> 15],
      [keyword |-> <<"c","o","a","c","h">>, weight |-> 14],
      [keyword |-> <<"c","o","a","c","h","e","d">>, weight |-> 14],
      [keyword |-> <<"p","a","r","t","n","e","r">>, weight |-> 13],
      [keyword |-> <<"p","a","r","t","n","e","r","e","d">>, weight |-> 13],
      [keyword |-> <<"p","a","r","t","n","e","r","s","h","i","p">>, weight |-> 13],
      [keyword |-> <<"a","l","i","g","n">>, weight |-> 12],
      [keyword |-> <<"a","l","i","g","n","e","d">>, weight |-> 12],
      [keyword |-> <<"a","l","i","g","n","m","e","n","t">>, weight |-> 12],
      [keyword |-> <<"t","e","a","m">>, weight |-> 10],
      [keyword |-> <<"t","e","a","m","s">>, weight |-> 10] >>],
    [role |-> "Thriver", keywords |-> <<
      [keyword |-> <<"f","a","s","t","-","p","a","c","e","d">>, weight |-> 15],
      [keyword |-> <<"f","a","s","t"," ","p","a","c","e","d">>, weight |-> 15],
      [keyword |-> <<"r","a","p","i","d">>, weight |-> 13],
      [keyword |-> <<"r","a","p","i","d","l","y">>, weight |-> 13],
      [keyword |-> <<"q","u","i","c","k">>, weight |-> 12],
      [keyword |-> <<"q","u","i","c","k","l","y">>, weight |-> 12],
      [keyword |-> <<"a","c","c","e","l","e","r","a","t","e">>, weight |-> 13],
      [keyword |-> <<"a","c","c","e","l","e","r","a","t","e","d">>, weight |-> 13],
      [keyword |-> <<"d","e","a","d","l","i","n","e">>, weight |-> 14],
      [keyword |-> <<"d","e","a","d","l","i","n","e","s">>, weight |-> 14],
      [keyword |-> <<"o","n","-","t","i","m","e">>, weight |-> 13],
      [keyword |-> <<"o","n"," ","t","i","m","e">>, weight |-> 13],
      [keyword |-> <<"t","i","m","e","l","y">>, weight |-> 12],
      [keyword |-> <<"a","g","i","l","e">>, weight |-> 14],
      [keyword |-> <<"a","d","a","p","t">>, weight |-> 14],
      [keyword |-> <<"a","d","a","p","t","e","d">>, weight |-> 14],
      [keyword |-> <<"a","d","a","p","t","a","b","l","e">>, weight |-> 14],
      [keyword |-> <<"p","i","v","o","t">>, weight |-> 14],
      [keyword |-> <<"p","i","v","o","t","e","d">>, weight |-> 14],
      [keyword |-> <<"f","l","e","x","i","b","l","e">>, weight |-> 13],
      [keyword |-> <<"f","l","e","x","i","b","i","l","i","t","y">>, weight |-> 13],
      [keyword |-> <<"d","y","n","a","m","i","c">>, weight |-> 13],
      [keyword |-> <<"o","w","n","e","r","s","h","i","p">>, weight |-> 15],
      [keyword |-> <<"o","w","n">>, weight |-> 12],
      [keyword |-> <<"o","w","n","e","d">>, weight |-> 12],
      [keyword |-> <<"a","c","c","o","u","n","t","a","b","i","l","i","t","y">>, weight |-> 14],
      [keyword |-> <<"a","c","c","o","u","n","t","a","b","l","e">>, weight |-> 14],
      [keyword |-> <<"i","n","i","t","i","a","t","i","v","e">>, weight |-> 13],
      [keyword |-> <<"p","r","o","a","c","t","i","v","e">>, weight |-> 14],
      [keyword |-> <<"p","r","o","a","c","t","i","v","e","l","y">>, weight |-> 14],
      [keyword |-> <<"h","i","g","h","-","p","r","e","s","s","u","r","e">>, weight |-> 15],
      [keyword |-> <<"h","i","g","h"," ","p","r","e","s","s","u","r","e">>, weight |-> 15],
      [keyword |-> <<"p","r","e","s","s","u","r","e">>, weight |-> 13],
      [keyword |-> <<"u","r","g","e","n","t">>, weight |-> 14],
      [keyword |-> <<"u","r","g","e","n","c","y">>, weight |-> 14],
      [keyword |-> <<"c","h","a","l","l","e","n","g","i","n","g">>, weight |-> 12],
      [keyword |-> <<"c","h","a","l","l","e","n","g","e">>, weight |-> 12],
      [keyword |-> <<"c","h","a","l","l","e","n","g","e","s">>, weight |-> 12],
      [keyword |-> <<"d","e","l","i","v","e","r">>, weight |-> 13],
      [keyword |-> <<"d","e","l","i","v","e","r","e","d">>, weight |-> 13],
      [keyword |-> <<"a","c","h","i","e","v","e">>, weight |-> 13],
      [keyword |-> <<"a","c","h","i","e","v","e","d">>, weight |-> 13],
      [keyword |-> <<"a","c","c","o","m","p","l","i","s","h">>, weight |-> 13],
      [keyword |-> <<"a","c","c","o","m","p","l","i","s","h","e","d">>, weight |-> 13],
      [keyword |-> <<"e","x","c","e","e","d">>, weight |-> 14],
      [keyword |-> <<"e","x","c","e","e","d","e","d">>, weight |-> 14] >>],
    [role |-> "Supportee", keywords |-> <<
      [keyword |-> <<"r","e","l","i","a","b","l","e">>, weight |-> 15],
      [keyword |-> <<"r","e","l","i","a","b","i","l","i","t","y">>, weight |-> 15],
      [keyword |-> <<"c","o","n","s","i","s","t","e","n","t">>, weight |-> 14],
      [keyword |-> <<"c","o","n","s","i","s","t","e","n","c","y">>, weight |-> 14],
      [keyword |-> <<"s","t","a","b","l","e">>, weight |-> 13],
      [keyword |-> <<"s","t","a","b","i","l","i","t","y">>, weight |-> 13],
      [keyword |-> <<"d","e","p","e","n","d","a","b","l","e">>, weight |-> 15],
      [keyword |-> <<"s","t","e","a","d","y">>, weight |-> 13],
      [keyword |-> <<"m","a","i","n","t","a","i","n">>, weight |-> 14],
      [keyword |-> <<"m","a","i","n","t","a","i","n","e","d">>, weight |-> 14],
      [keyword |-> <<"m","a","i","n","t","e","n","a","n","c","e">>, weight |-> 14],
      [keyword |-> <<"m","o","n","i","t","o","r">>, weight |-> 13],
      [keyword |-> <<"m","o","n","i","t","o","r","e","d">>, weight |-> 13],
      [keyword |-> <<"m","o","n","i","t","o","r","i","n","g">>, weight |-> 13],
      [keyword |-> <<"e","n","s","u","r","e">>, weight |-> 13],
      [keyword |-> <<"e","n","s","u","r","e","d">>, weight |-> 13],
      [keyword |-> <<"u","p","k","e","e","p">>, weight |-> 13],
      [keyword |-> <<"d","o","c","u","m","e","n","t">>, weight |-> 14],
      [keyword |-> <<"d","o","c","u","m","e","n","t","e","d">>, weight |-> 14],
      [keyword |-> <<"d","o","c","u","m","e","n","t","a","t","i","o","n">>, weight |-> 15],
      [keyword |-> <<"p","r","o","c","e","s","s">>, weight |-> 12],
      [keyword |-> <<"p","r","o","c","e","s","s","e","s">>, weight |-> 12],
      [keyword |-> <<"p","r","o","c","e","d","u","r","e">>, weight |-> 14],
      [keyword |-> <<"p","r","o","c","e","d","u","r","e","s">>, weight |-> 14],
      [keyword |-> <<"s","t","a","n","d","a","r","d">>, weight |-> 13],
      [keyword |-> <<"s","t","a","n","d","a","r","d","s">>, weight |-> 13],
      [keyword |-> <<"q","u","a","l","i","t","y">>, weight |-> 14],
      [keyword |-> <<"a","c","c","u","r","a","c","y">>, weight |-> 14],
      [keyword |-> <<"a","c","c","u","r","a","t","e">>, weight |-> 14],
      [keyword |-> <<"c","o","m","p","l","i","a","n","c","e">>, weight |-> 15],
      [keyword |-> <<"c","o","m","p","l","i","a","n","t">>, weight |-> 15],
      [keyword |-> <<"a","u","d","i","t">>, weight |-> 14],
      [keyword |-> <<"a","u","d","i","t","e","d">>, weight |-> 14],
      [keyword |-> <<"t","r","o","u","b","l","e","s","h","o","o","t">>, weight |-> 13],
      [keyword |-> <<"t","r","o","u","b","l","e","s","h","o","o","t","i","n","g">>, weight |-> 13],
      [keyword |-> <<"r","e","s","o","l","v","e">>, weight |-> 12],
      [keyword |-> <<"r","e","s","o","l","v","e","d">>, weight |-> 12],
      [keyword |-> <<"f","i","x">>, weight |-> 11],
      [keyword |-> <<"f","i","x","e","d">>, weight |-> 11],
      [keyword |-> <<"d","e","b","u","g">>, weight |-> 12],
      [keyword |-> <<"d","e","b","u","g","g","e","d">>, weight |-> 12],
      [keyword |-> <<"o","p","e","r","a","t","i","o","n","a","l">>, weight |-> 13],
      [keyword |-> <<"o","p","e","r","a","t","i","o","n","s">>, weight |-> 12],
      [keyword |-> <<"r","o","u","t","i","n","e">>, weight |-> 12],
      [keyword |-> <<"s","y","s","t","e","m","a","t","i","c">>, weight |-> 13],
      [keyword |-> <<"m","e","t","h","o","d","i","c","a","l">>, weight |-> 14],
      [keyword |-> <<"t","h","o","r","o","u","g","h">>, weight |-> 13] >>] >>

\* the archetypes in the order the dictionary iterates over them
RECURSIVE RolesFrom(_)
RolesFrom(i) ==
  IF i > Len(ROLECOLOR_KEYWORDS) THEN <<>>
  ELSE <<ROLECOLOR_KEYWORDS[i].role>> \o RolesFrom(i + 1)

Roles == RolesFrom(1)

RoleSet == {Roles[i] : i \in 1..Len(Roles)}

(***************************************************************************)
(* Characters.                                                             *)
(***************************************************************************)
UpperCase == <<"A","B","C","D","E","F","G","H","I","J","K","L","M",
               "N","O","P","Q","R","S","T","U","V","W","X","Y","Z">>

LowerCase == <<"a","b","c","d","e","f","g","h","i","j","k","l","m",
               "n","o","p","q","r","s","t","u","v","w","x","y","z">>

Digits == {"0","1","2","3","4","5","6","7","8","9"}

\* what the regular expression class \s matches
Whitespace == {" ", "\t", "\n", "\r", "\f"}

\* what the regular expression class \w matches
WordChars == {UpperCase[i] : i \in 1..26} \cup {LowerCase[i] : i \in 1..26}
               \cup Digits \cup {"_"}

\* the lower-case letter of every upper-case letter
LowerOf == [c \in {UpperCase[i] : i \in 1..26} |->
              LowerCase[CHOOSE i \in 1..26 : UpperCase[i] = c]]

\* variant: letters keep their case
LowerCharKept(c) == c

LowerChar(c) == IF c \in DOMAIN LowerOf THEN LowerOf[c] ELSE c

\* str.lower()
RECURSIVE Lower(_)
Lower(s) ==
  IF s = <<>> THEN <<>> ELSE <<LowerChar(Head(s))>> \o Lower(Tail(s))

\* re.sub(r'\s+', ' ', s): every maximal run of whitespace becomes one space
RECURSIVE CollapseWhitespace(_)
CollapseWhitespace(s) ==
  IF s = <<>> THEN <<>>
  ELSE IF Head(s) \in Whitespace
    THEN IF Len(s) > 1 /\ s[2] \in Whitespace
           THEN CollapseWhitespace(Tail(s))
           ELSE <<" ">> \o CollapseWhitespace(Tail(s))
    ELSE <<Head(s)>> \o CollapseWhitespace(Tail(s))

\* str.strip()
RECURSIVE LStrip(_)
LStrip(s) ==
  IF s # <<>> /\ Head(s) \in Whitespace THEN LStrip(Tail(s)) ELSE s

RECURSIVE RStrip(_)
RStrip(s) ==
  IF s # <<>> /\ s[Len(s)] \in Whitespace
    THEN RStrip(SubSeq(s, 1, Len(s) - 1)) ELSE s

Strip(s) == RStrip(LStrip(s))

preprocess_text(text) == Strip(CollapseWhitespace(Lower(text)))

(***************************************************************************)
(* resume_scorer.py: matching.                                             *)
(***************************************************************************)
\* variant: a hyphen counts as a character of a word
IsWordOrHyphenAt(text, j) == j \in 1..Len(text) /\ text[j] \in WordChars \cup {"-"}

IsWordAt(text, j) == j \in 1..Len(text) /\ text[j] \in WordChars

\* variant: no word boundary is required
AnyPosition(text, i) == TRUE

\* \b holds in front of position i: exactly one of the characters i-1 and i
\* is a word character (outside the text there is none)
WordBoundary(text, i) == IsWordAt(text, i - 1) # IsWordAt(text, i)

\* the pattern \b + re.escape(keyword) + \b matches the text at positions
\* i .. i + Len(keyword) - 1
\* variant: the pattern without its closing \b
MatchAtOpening(keyword, text, i) ==
  /\ i + Len(keyword) - 1 <= Len(text)
  /\ \A k \in 1..Len(keyword) : text[i + k - 1] = keyword[k]
  /\ WordBoundary(text, i)

MatchAt(keyword, text, i) ==
  /\ i + Len(keyword) - 1 <= Len(text)
  /\ \A k \in 1..Len(keyword) : text[i + k - 1] = keyword[k]
  /\ WordBoundary(text, i)
  /\ WordBoundary(text, i + Len(keyword))

\* len(re.findall(pattern, text)): the scan resumes after the end of a match
RECURSIVE CountFrom(_, _, _)
CountFrom(keyword, text, i) ==
  IF i > Len(text) THEN 0
  ELSE IF MatchAt(keyword, text, i)
    THEN 1 + CountFrom(keyword, text, i + Len(keyword))
    ELSE CountFrom(keyword, text, i + 1)

\* variant: a record for every keyword, counted or not
RECURSIVE MatchesFromAll(_, _, _)
MatchesFromAll(text_lower, keywords, k) ==
  IF k > Len(keywords) THEN <<>>
  ELSE << [keyword |-> keywords[k].keyword,
           weight  |-> keywords[k].weight,
           count   |-> CountFrom(Lower(keywords[k].keyword), text_lower, 1)] >>
         \o MatchesFromAll(text_lower, keywords, k + 1)

\* lines 43-48: the loop over the keywords, from the k-th on
RECURSIVE MatchesFrom(_, _, _)
MatchesFrom(text_lower, keywords, k) ==
  IF k > Len(keywords) THEN <<>>
  ELSE LET count == CountFrom(Lower(keywords[k].keyword), text_lower, 1)
       IN (IF count > 0
             THEN << [keyword |-> keywords[k].keyword,
                      weight  |-> keywords[k].weight,
                      count   |-> count] >>
             ELSE <<>>) \o MatchesFrom(text_lower, keywords, k + 1)

find_keyword_matches(text, keywords) == MatchesFrom(Lower(text), keywords, 1)

(***************************************************************************)
(* resume_scorer.py: scoring.                                              *)
(***************************************************************************)
\* line 68: the occurrences beyond the fifth add nothing
RepeatCap == 5

\* line 68: 0.3 of the weight for every repeated occurrence, in tenths
RepeatBonus == 3

Min(a, b) == IF a < b THEN a ELSE b

\* variant: no cap on the occurrences
KeywordScoreUncapped(weight, count) == weight * (10 + RepeatBonus * (count - 1))

\* weight * (1 + 0.3 * (min(count, 5) - 1)), in hundredths
KeywordScore(weight, count) ==
  weight * (10 + RepeatBonus * (Min(count, RepeatCap) - 1))

\* variant: every match adds its weight, whatever its count
RECURSIVE SumScoresFlat(_)
SumScoresFlat(matches) ==
  IF matches = <<>> THEN 0
  ELSE Head(matches).weight * 10 + SumScoresFlat(Tail(matches))

\* lines 66-69: the sum over the matches
RECURSIVE SumScores(_)
SumScores(matches) ==
  IF matches = <<>> THEN 0
  ELSE KeywordScore(Head(matches).weight, Head(matches).count)
         + SumScores(Tail(matches))

calculate_role_score(text, keywords) ==
  LET matches == find_keyword_matches(text, keywords)
  IN [total_score |-> SumScores(matches), matches |-> matches]

\* a < b for fractions with positive denominators
FracLess(a, b) == a.num * b.den < b.num * a.den

\* variant: a later key replaces an equal earlier one
RECURSIVE MaxKeyFromLast(_, _, _, _)
MaxKeyFromLast(d, order, i, best) ==
  IF i > Len(order) THEN best
  ELSE IF ~FracLess(d[order[i]], d[best])
    THEN MaxKeyFromLast(d, order, i + 1, order[i])
    ELSE MaxKeyFromLast(d, order, i + 1, best)

\* max(d, key=d.get) over a dictionary with the keys in the order `order':
\* the first key, in iteration order, whose value no other exceeds
RECURSIVE MaxKeyFrom(_, _, _, _)
MaxKeyFrom(d, order, i, best) ==
  IF i > Len(order) THEN best
  ELSE IF FracLess(d[best], d[order[i]])
    THEN MaxKeyFrom(d, order, i + 1, order[i])
    ELSE MaxKeyFrom(d, order, i + 1, best)

MaxKey(d, order) == MaxKeyFrom(d, order, 2, order[1])

RECURSIVE SumOver(_, _)
SumOver(f, S) ==
  IF S = {} THEN 0
  ELSE LET x == CHOOSE y \in S : TRUE IN f[x] + SumOver(f, S \ {x})

\* variant: an equal share for five archetypes
EqualShareOfFive == [num |-> 20, den |-> 100]

\* the equal share 0.25 of line 101
EqualShare == [num |-> 25, den |-> 100]

\* lines 91-94: the loop over the archetypes, from the i-th on
RECURSIVE ScoreRoles(_, _)
ScoreRoles(text, i) ==
  IF i > Len(ROLECOLOR_KEYWORDS) THEN <<>>
  ELSE <<calculate_role_score(text, ROLECOLOR_KEYWORDS[i].keywords)>>
         \o ScoreRoles(text, i + 1)

RoleIndex(r) == CHOOSE i \in 1..Len(ROLECOLOR_KEYWORDS) : ROLECOLOR_KEYWORDS[i].role = r

\* variant: every raw score divided by the largest raw score
NormalizedScoresByMax(raw_scores, total) ==
  LET largest == CHOOSE r \in RoleSet : \A q \in RoleSet : raw_scores[q] <= raw_scores[r]
  IN IF total = 0
       THEN [r \in RoleSet |-> EqualShare]
       ELSE [r \in RoleSet |-> [num |-> raw_scores[r], den |-> raw_scores[largest]]]

\* variant: the division without the test for a zero total
NormalizedScoresUnguarded(raw_scores, total) ==
  [r \in RoleSet |-> [num |-> raw_scores[r], den |-> total]]

\* lines 99-103: the distribution over the archetypes
NormalizedScores(raw_scores, total) ==
  IF total = 0
    THEN [r \in RoleSet |-> EqualShare]
    ELSE [r \in RoleSet |-> [num |-> raw_scores[r], den |-> total]]

\* lines 96-114: the result built from the scores of the four archetypes
ScoreResult(scored) ==
  LET raw_scores == [r \in RoleSet |-> scored[RoleIndex(r)].total_score]
      all_matches == [r \in RoleSet |-> scored[RoleIndex(r)].matches]
      total == SumOver(raw_scores, RoleSet)
      normalized_scores == NormalizedScores(raw_scores, total)
  IN [scores |-> normalized_scores,
      raw_scores |-> raw_scores,
      matches |-> all_matches,
      dominant_role |-> MaxKey(normalized_scores, Roles),
      total_keywords_matched |-> SumOver([r \in RoleSet |-> Len(all_matches[r])], RoleSet)]

score_resume(text) == ScoreResult(ScoreRoles(preprocess_text(text), 1))

(***************************************************************************)
(* latex_generator.py: the template renderer.                              *)
(*                                                                         *)
(* A string is a sequence of atoms: a placeholder token, a header marker   *)
(* ("NAME:"), a bullet marker, a whitespace character, or a stretch of     *)
(* other text.  LATEX_TEMPLATE is the template of lines 41-96 cut at its   *)
(* placeholder tokens.                                                     *)
(***************************************************************************)
LATEX_TEMPLATE ==
  <<
    "\n\\documentclass[11pt,a4paper]{article}\n\\usepackage[utf8]{inputenc}\n\\usepackage[T1]{fontenc}\n\\usepackage{geometry}\n\\usepackage{enumitem}\n\\usepackage{titlesec}\n\\usepackage{hyperref}\n\\usepackage{xcolor}\n\n% Page margins\n\\geometry{left=0.75in, right=0.75in, top=0.75in, bottom=0.75in}\n\n% Colors for RoleColor accents\n\\definecolor{BuilderColor}{RGB}{59, 130, 246}\n\\definecolor{EnablerColor}{RGB}{34, 197, 94}\n\\definecolor{ThriverColor}{RGB}{249, 115, 22}\n\\definecolor{SupporteeColor}{RGB}{139, 92, 246}\n\n% Section formatting\n\\titleformat{\\section}{\\large\\bfseries\\color{",
    "<<ROLE_COLOR>>",
    "}}{}{0em}{}[\\titlerule]\n\\titlespacing{\\section}{0pt}{12pt}{6pt}\n\n% Remove page numbers\n\\pagenumbering{gobble}\n\n% Custom commands\n\\newcommand{\\resumeitem}[1]{\\item #1}\n\\newcommand{\\rolecolorbadge}[1]{\\textcolor{",
    "<<ROLE_COLOR>>",
    "}{\\textbf{[#1]}}}\n\n\\begin{document}\n\n% Header\n\\begin{center}\n    {\\LARGE\\bfseries ",
    "<<NAME>>",
    "}\\\\[4pt]\n    ",
    "<<CONTACT_INFO>>",
    "\n\\end{center}\n\n% Professional Summary with RoleColor Badge\n\\section{Professional Summary \\rolecolorbadge{",
    "<<DOMINANT_ROLE>>",
    "}}\n",
    "<<SUMMARY>>",
    "\n\n% Experience\n\\section{Experience}\n",
    "<<EXPERIENCE>>",
    "\n\n% Skills\n\\section{Skills}\n",
    "<<SKILLS>>",
    "\n\n% Education\n\\section{Education}\n",
    "<<EDUCATION>>",
    "\n\n\\end{document}\n"
  >>

Placeholders == {"<<ROLE_COLOR>>", "<<NAME>>", "<<CONTACT_INFO>>", "<<DOMINANT_ROLE>>",
                 "<<SUMMARY>>", "<<EXPERIENCE>>", "<<SKILLS>>", "<<EDUCATION>>"}

get_color_for_role(role) ==
  CASE role = "Builder"   -> "BuilderColor"
    [] role = "Enabler"   -> "EnablerColor"
    [] role = "Thriver"   -> "ThriverColor"
    [] role = "Supportee" -> "SupporteeColor"
    [] OTHER              -> "BuilderColor"

\* variant: str.replace(old, new, 1), only the first occurrence
RECURSIVE ReplaceFirst(_, _, _)
ReplaceFirst(s, old, new) ==
  IF s = <<>> THEN <<>>
  ELSE IF Head(s) = old THEN new \o Tail(s)
  ELSE <<Head(s)>> \o ReplaceFirst(Tail(s), old, new)

\* str.replace(old, new): every occurrence of the token old becomes new
RECURSIVE Replace(_, _, _)
Replace(s, old, new) ==
  IF s = <<>> THEN <<>>
  ELSE (IF Head(s) = old THEN new ELSE <<Head(s)>>) \o Replace(Tail(s), old, new)

\* str.startswith(prefix)
StartsWith(s, prefix) == s # <<>> /\ Head(s) = prefix

\* '\n'.join(lines)
RECURSIVE Join(_)
Join(lines) ==
  IF lines = <<>> THEN <<>>
  ELSE IF Len(lines) = 1 THEN Head(lines)
  ELSE Head(lines) \o <<"\n">> \o Join(Tail(lines))

\* str.split('\n')
RECURSIVE SplitFrom(_, _)
SplitFrom(s, line) ==
  IF s = <<>> THEN <<line>>
  ELSE IF Head(s) = "\n" THEN <<line>> \o SplitFrom(Tail(s), <<>>)
  ELSE SplitFrom(Tail(s), Append(line, Head(s)))

Split(s) == SplitFrom(s, <<>>)

\* dict.get(key, default)
Get(d, key, default) == IF key \in DOMAIN d THEN d[key] ELSE default

\* d[key] = value
Put(d, key, value) ==
  [k \in DOMAIN d \cup {key} |-> IF k = key THEN value ELSE d[k]]

\* lines 167-193: one pass of the loop over the lines of the reply
ParseLine(st, rawline) ==
  LET line == Strip(rawline)
      content(header) == Strip(Replace(line, header, <<>>))
      more(header) == IF content(header) # <<>>
                        THEN Append(st.current_content, content(header))
                        ELSE st.current_content
  IN IF StartsWith(line, "NAME:")
       THEN [st EXCEPT !.sections = Put(st.sections, "name", content("NAME:"))]
     ELSE IF StartsWith(line, "CONTACT:")
       THEN [st EXCEPT !.sections = Put(st.sections, "contact", content("CONTACT:"))]
     ELSE IF StartsWith(line, "EXPERIENCE:")
       THEN [st EXCEPT !.current_section = "experience",
                       !.current_content = more("EXPERIENCE:")]
     ELSE IF StartsWith(line, "SKILLS:")
       THEN IF st.current_section = "experience"
              THEN [sections |-> Put(st.sections, "experience", Join(st.current_content)),
                    current_section |-> "skills",
                    current_content |-> IF content("SKILLS:") # <<>>
                                          THEN <<content("SKILLS:")>> ELSE <<>>]
              ELSE [st EXCEPT !.current_section = "skills",
                              !.current_content = more("SKILLS:")]
     ELSE IF StartsWith(line, "EDUCATION:")
       THEN IF st.current_section = "skills"
              THEN [sections |-> Put(st.sections, "skills", Join(st.current_content)),
                    current_section |-> "education",
                    current_content |-> IF content("EDUCATION:") # <<>>
                                          THEN <<content("EDUCATION:")>> ELSE <<>>]
              ELSE [st EXCEPT !.current_section = "education",
                              !.current_content = more("EDUCATION:")]
     ELSE IF line # <<>> /\ st.current_section # None
       THEN [st EXCEPT !.current_content = Append(st.current_content, line)]
     ELSE st

RECURSIVE ParseLines(_, _)
ParseLines(st, lines) ==
  IF lines = <<>> THEN st
  ELSE ParseLines(ParseLine(st, Head(lines)), Tail(lines))

\* lines 158-197: the sections dictionary parsed from the reply
ParseSections(content) ==
  LET extracted == Strip(content)
      st == ParseLines([sections |-> <<>>, current_section |-> None,
                        current_content |-> <<>>], Split(extracted))
  IN IF st.current_section # None /\ st.current_content # <<>>
       THEN Put(st.sections, st.current_section, Join(st.current_content))
       ELSE st.sections

Bullets == {"-", "U+2022"}

\* str.lstrip of the two bullet markers, "-" and U+2022
RECURSIVE LStripBullets(_)
LStripBullets(s) ==
  IF s # <<>> /\ Head(s) \in Bullets THEN LStripBullets(Tail(s)) ELSE s

\* variant: a line that is no bullet line does not close the list
FormatLineListKeptOpen(st, rawline) ==
  LET line == Strip(rawline)
  IN IF StartsWith(line, "-") \/ StartsWith(line, "U+2022")
       THEN [formatted_exp |->
               (IF ~st.in_itemize
                  THEN Append(st.formatted_exp, <<"\\begin{itemize}[leftmargin=*]">>)
                  ELSE st.formatted_exp)
                 \o << <<"\\item ">> \o Strip(LStripBullets(line)) >>,
             in_itemize |-> TRUE]
     ELSE IF line # <<>>
       THEN [formatted_exp |->
               st.formatted_exp \o << <<"\\textbf{">> \o line \o <<"}\\\\">> >>,
             in_itemize |-> st.in_itemize]
     ELSE st

\* lines 216-227: one pass of the loop over the lines of the experience block
FormatLine(st, rawline) ==
  LET line == Strip(rawline)
  IN IF StartsWith(line, "-") \/ StartsWith(line, "U+2022")
       THEN [formatted_exp |->
               (IF ~st.in_itemize
                  THEN Append(st.formatted_exp, <<"\\begin{itemize}[leftmargin=*]">>)
                  ELSE st.formatted_exp)
                 \o << <<"\\item ">> \o Strip(LStripBullets(line)) >>,
             in_itemize |-> TRUE]
     ELSE IF line # <<>>
       THEN [formatted_exp |->
               (IF st.in_itemize
                  THEN Append(st.formatted_exp, <<"\\end{itemize}">>)
                  ELSE st.formatted_exp)
                 \o << <<"\\textbf{">> \o line \o <<"}\\\\">> >>,
             in_itemize |-> FALSE]
     ELSE st

RECURSIVE FormatLines(_, _)
FormatLines(st, lines) ==
  IF lines = <<>> THEN st
  ELSE FormatLines(FormatLine(st, Head(lines)), Tail(lines))

\* variant: without lines 228-229, a list open at the end stays open
FormatExperienceUnclosed(exp_text) ==
  Join(FormatLines([formatted_exp |-> <<>>, in_itemize |-> FALSE],
                   Split(exp_text)).formatted_exp)

\* lines 213-230: the experience block as LaTeX
FormatExperience(exp_text) ==
  LET st == FormatLines([formatted_exp |-> <<>>, in_itemize |-> FALSE], Split(exp_text))
  IN Join(IF st.in_itemize
            THEN Append(st.formatted_exp, <<"\\end{itemize}">>)
            ELSE st.formatted_exp)

\* lines 200-242: the template filled from the sections
FillTemplate(latex, sections, summary, role) ==
  LET l1 == Replace(latex, "<<ROLE_COLOR>>", <<get_color_for_role(role)>>)
      l2 == Replace(l1, "<<NAME>>", Get(sections, "name", <<"Your Name">>))
      l3 == Replace(l2, "<<CONTACT_INFO>>",
                    Get(sections, "contact", <<"email@example.com | (555) 123-4567">>))
      l4 == Replace(l3, "<<DOMINANT_ROLE>>", <<role>>)
      l5 == Replace(l4, "<<SUMMARY>>", summary)
      exp_text == Get(sections, "experience", <<>>)
      l6 == IF exp_text # <<>>
              THEN Replace(l5, "<<EXPERIENCE>>", FormatExperience(exp_text))
              ELSE Replace(l5, "<<EXPERIENCE>>", <<"Experience details here">>)
      l7 == Replace(l6, "<<SKILLS>>", Get(sections, "skills", <<"Skills here">>))
  IN Replace(l7, "<<EDUCATION>>", Get(sections, "education", <<"Education details here">>))

\* line 200: latex = LATEX_TEMPLATE
RenderSections(sections, summary, role) ==
  FillTemplate(LATEX_TEMPLATE, sections, summary, role)

\* What a call returns: a string, or the exception it raised.
Returned(text) == [raised |-> FALSE, text |-> text]
Raised(error)  == [raised |-> TRUE, error |-> error]

\* variant: the archetype shown is the one with the highest score in the map
generate_latex_by_scores(extract, summary, role, role_scores) ==
  CASE extract.outcome = "no_key" -> Raised("ValueError")
    [] extract.outcome = "api_error" ->
         Returned(<<"% Error generating LaTeX: ", "api error", "\n">> \o LATEX_TEMPLATE)
    [] extract.outcome = "reply" ->
         Returned(RenderSections(ParseSections(extract.content), summary,
                                 MaxKey(role_scores, Roles)))

\* generate_latex_from_resume, given what the extraction collaborator does:
\*   "no_key"    get_openai_client() raises ValueError (line 130, outside the try)
\*   "api_error" the completion call, or reading its reply, raises (lines 149-158)
\*   "reply"     the call returns the text `content'
\* The parameter scores (role_scores here) is not read anywhere in the body.
generate_latex_from_resume(extract, summary, role, role_scores) ==
  CASE extract.outcome = "no_key" -> Raised("ValueError")
    [] extract.outcome = "api_error" ->
         Returned(<<"% Error generating LaTeX: ", "api error", "\n">> \o LATEX_TEMPLATE)
    [] extract.outcome = "reply" ->
         Returned(RenderSections(ParseSections(extract.content), summary, role))

\* lines 257-292: the template of generate_simple_latex cut at its placeholders
SIMPLE_TEMPLATE ==
  <<
    "\n\\documentclass[11pt,a4paper]{article}\n\\usepackage[utf8]{inputenc}\n\\usepackage[T1]{fontenc}\n\\usepackage{geometry}\n\\usepackage{titlesec}\n\\usepackage{xcolor}\n\n\\geometry{left=0.75in, right=0.75in, top=0.75in, bottom=0.75in}\n\n\\definecolor{RoleColor}{RGB}{",
    "<<RGB>>",
    "}\n\n\\titleformat{\\section}{\\large\\bfseries\\color{RoleColor}}{}{0em}{}[\\titlerule]\n\\pagenumbering{gobble}\n\n\\begin{document}\n\n\\begin{center}\n    {\\LARGE\\bfseries ",
    "<<NAME>>",
    "}\\\\[4pt]\n    ",
    "<<CONTACT>>",
    "\n\\end{center}\n\n\\section{Professional Summary}\n\\textcolor{RoleColor}{\\textbf{[",
    "<<ROLE>>",
    "]}} ",
    "<<SUMMARY>>",
    "\n\n\\section{Experience}\n% Add your experience here\n\n\\section{Skills}\n% Add your skills here\n\n\\section{Education}\n% Add your education here\n\n\\end{document}\n"
  >>

\* lines 294-299
rgb_values ==
  [Builder   |-> "59, 130, 246",
   Enabler   |-> "34, 197, 94",
   Thriver   |-> "249, 115, 22",
   Supportee |-> "139, 92, 246"]

\* lines 248-307
generate_simple_latex(name, contact, summary, role) ==
  LET l1 == Replace(SIMPLE_TEMPLATE, "<<RGB>>", <<Get(rgb_values, role, "59, 130, 246")>>)
      l2 == Replace(l1, "<<NAME>>", name)
      l3 == Replace(l2, "<<CONTACT>>", contact)
      l4 == Replace(l3, "<<ROLE>>", <<role>>)
  IN Replace(l4, "<<SUMMARY>>", summary)

(***************************************************************************)
(* Inputs of the scoring engine.                                           *)
(***************************************************************************)
\* the longest text built from vocabulary tokens
MaxTokens == 3

\* the most repetitions of one word
MaxReps == 10

Words == { <<"l","e","d">>,                  \* Builder 1.3
           <<"b","r","i","d","g","e">>,      \* Enabler 1.3
           <<"r","a","p","i","d">>,          \* Thriver 1.3
           <<"s","t","a","b","l","e">>,      \* Supportee 1.3
           <<"f","i","x">>,                  \* Supportee 1.1
           <<"c","a","l","l","e","d">> }     \* in no archetype

Separators == { <<" ">>, <<"-">>, <<"\n">> }

Vocabulary == Words \cup Separators

RECURSIVE Concat(_)
Concat(parts) ==
  IF parts = <<>> THEN <<>> ELSE Head(parts) \o Concat(Tail(parts))

SeqsUpTo(S, n) == UNION {[1..k -> S] : k \in 0..n}

TokenTexts == {Concat(ts) : ts \in SeqsUpTo(Vocabulary, MaxTokens)}

Tails == { <<>>, <<"l","e","d">> }

\* the word w, n times, each followed by sep, and then tail
RECURSIVE Repeat(_, _)
Repeat(s, n) == IF n = 0 THEN <<>> ELSE s \o Repeat(s, n - 1)

RepeatText(w, n, sep, tail) == Repeat(w \o sep, n) \o tail

RepeatTexts ==
  {RepeatText(w, n, sep, tail) :
     w \in Words, n \in 1..MaxReps, sep \in Separators, tail \in Tails}

\* "I led the strategic architecture of a scalable platform"
ExampleText ==
  <<"I"," ","l","e","d"," ","t","h","e"," ","s","t","r","a","t","e","g","i","c"," ",
    "a","r","c","h","i","t","e","c","t","u","r","e"," ","o","f"," ","a"," ",
    "s","c","a","l","a","b","l","e"," ","p","l","a","t","f","o","r","m">>

\* what may stand right before or right after a word
Affixes == { <<>>, <<"s">>, <<"7">>, <<"_">>, <<" ">>, <<"-">>, <<".">> }

\* "led" (Builder) and "team" (Enabler, as is "teams") between two affixes
BoundaryTexts ==
  {pre \o w \o post :
     w \in { <<"l","e","d">>, <<"t","e","a","m">> }, pre \in Affixes, post \in Affixes}

\* what may stand between the two words of "cross functional"
WordGaps ==
  { <<" ">>, <<" ", " ">>, <<"\t">>, <<"\n">>, <<" ", "\t", "\n">>, <<"-">> }

CrossCasings ==
  { <<"c","r","o","s","s">>, <<"C","R","O","S","S">>, <<"C","r","o","s","s">> }

FunctionalCasings ==
  { <<"f","u","n","c","t","i","o","n","a","l">>,
    <<"F","U","N","C","T","I","O","N","A","L">> }

\* "cross" and "functional" in several casings with a gap in between
CrossTexts ==
  {first \o gap \o second :
     first \in CrossCasings, gap \in WordGaps, second \in FunctionalCasings}

\* "led" in several casings
CasedTexts == { <<"L","E","D">>, <<"L","e","d">>, <<"l","E","d">> }

\* a term that holds another term of its archetype, and a term of two
\* archetypes
HighPressure == <<"h","i","g","h","-","p","r","e","s","s","u","r","e">>

Initiative == <<"i","n","i","t","i","a","t","i","v","e">>

SharedTexts == {HighPressure, Initiative}

ScoreInputs ==
  TokenTexts \cup RepeatTexts \cup BoundaryTexts \cup {ExampleText}
    \cup CrossTexts \cup CasedTexts \cup SharedTexts

(***************************************************************************)
(* Inputs of the renderer.                                                 *)
(***************************************************************************)
\* the longest reply built line by line
MaxLines == 3

HeaderMarkers == {"NAME:", "CONTACT:", "EXPERIENCE:", "SKILLS:", "EDUCATION:"}

ReplyLines ==
  {<<h>> \o body : h \in HeaderMarkers, body \in {<<>>, <<" ", "text">>}}
    \cup { <<"-", " ", "did this">>, <<"Acme - Engineer (2020)">> }

ShortReplies == {Join(ls) : ls \in SeqsUpTo(ReplyLines, MaxLines)}

FieldBodies == { <<>>, <<" ", "text">>, <<" ", "<<SUMMARY>>">> }

ExperienceBodies ==
  FieldBodies \cup { <<" ", "Acme - Engineer (2020)", "\n", "-", " ", "did this">> }

\* the five headers in the order the prompt asks for
CompleteReplies ==
  {Join(<< <<"NAME:">> \o n, <<"CONTACT:">> \o c, <<"EXPERIENCE:">> \o x,
           <<"SKILLS:">> \o s, <<"EDUCATION:">> \o e >>) :
     n \in FieldBodies, c \in FieldBodies, x \in ExperienceBodies,
     s \in FieldBodies, e \in FieldBodies}

\* the most lines after the header of an experience block
MaxExpLines == 4

\* a bullet line of either marker, a line that is no bullet line, a blank line
ExperienceLines ==
  { <<"-", " ", "did this">>, <<"U+2022", " ", "led that">>,
    <<"Acme - Engineer (2020)">>, <<>> }

\* replies that are one experience block
ExperienceReplies ==
  {Join(<< <<"EXPERIENCE:">> >> \o ls) : ls \in SeqsUpTo(ExperienceLines, MaxExpLines)}

Extractions ==
  {[outcome |-> "no_key"], [outcome |-> "api_error"]}
    \cup {[outcome |-> "reply", content |-> r] :
            r \in ShortReplies \cup CompleteReplies \cup ExperienceReplies}

Summaries == { <<"Results-driven engineer.">>, <<"<<NAME>>">>, <<"<<EDUCATION>>">> }

\* the extractions that are tried with every summary; the others are tried
\* with the plain summary
ExtractionsForEverySummary ==
  {[outcome |-> "no_key"], [outcome |-> "api_error"]}
    \cup {[outcome |-> "reply", content |-> r] : r \in CompleteReplies}

\* in the mode "Summary Only" the extraction collaborator is not called
NotCalled == [outcome |-> "not_called"]

\* the analyses the renderer is entered with: one per dominant archetype
AnalysedTexts ==
  { <<"l","e","d">>, <<"b","r","i","d","g","e">>, <<"r","a","p","i","d">>,
    <<"s","t","a","b","l","e">> }

Analyses == {score_resume(t) : t \in AnalysedTexts}

\* the score maps a caller may pass: those of the analyses and the equal shares
ScoreMaps == {a.scores : a \in Analyses} \cup {score_resume(<<>>).scores}

(***************************************************************************)
(* The scoring engine as a state machine: a text is given, score_resume    *)
(* is applied to it.                                                       *)
(***************************************************************************)
InitScore ==
  /\ resume_text \in ScoreInputs
  /\ scores = Pending
  /\ extraction = None
  /\ rewritten_summary = None
  /\ dominant_role = None
  /\ generation_type = None
  /\ latex_code = Pending
  /\ ValidatorIdle
  /\ CallsIdle
  /\ InteractiveIdle

ScoreResume ==
  /\ scores = Pending
  /\ scores' = score_resume(resume_text)
  /\ UNCHANGED <<resume_text, rendererVars, validatorVars, callVars, interactiveVars>>

NextScore == ScoreResume

SpecScore == InitScore /\ [][NextScore]_vars

(***************************************************************************)
(* Properties of the scoring engine (SpecScore).                           *)
(***************************************************************************)
Scored == scores # Pending

RECURSIVE GCD(_, _)
GCD(a, b) == IF b = 0 THEN a ELSE GCD(b, a % b)

FracAdd(a, b) ==
  LET n == a.num * b.den + b.num * a.den
      d == a.den * b.den
      g == GCD(n, d)
  IN [num |-> n \div g, den |-> d \div g]

RECURSIVE FracSumFrom(_, _)
FracSumFrom(d, i) ==
  IF i > Len(Roles) THEN [num |-> 0, den |-> 1]
  ELSE FracAdd(d[Roles[i]], FracSumFrom(d, i + 1))

FracEq(a, b) == a.num * b.den = b.num * a.den

Quarter == [num |-> 1, den |-> 4]

Half == [num |-> 1, den |-> 2]

\* C1: the four normalized scores of every result sum to exactly 1, whether
\* or not a term matched.
C1_NormalizedSumToOne ==
  Scored => LET sum == FracSumFrom(scores.scores, 1) IN sum.num = sum.den

\* a result in which two archetypes have unequal, positive raw scores
C1_Witness ==
  /\ Scored
  /\ scores.raw_scores["Builder"] > 0
  /\ scores.raw_scores["Supportee"] > scores.raw_scores["Builder"]

\* C2: when no term of any archetype matches, every archetype has the
\* normalized score 0.25 and the raw score 0.
C2_NoMatchEqualShare ==
  (Scored /\ \A r \in RoleSet : scores.matches[r] = <<>>)
    => \A r \in RoleSet : /\ FracEq(scores.scores[r], Quarter)
                          /\ scores.raw_scores[r] = 0

\* a scored text that has words, none of them a term
C2_Witness ==
  /\ Scored
  /\ \A r \in RoleSet : scores.matches[r] = <<>>
  /\ \E i \in 1..Len(resume_text) : resume_text[i] \in WordChars

WellFormedScore(f) ==
  /\ DOMAIN f = {"num", "den"}
  /\ f.den > 0
  /\ f.num >= 0
  /\ f.num <= f.den

WellFormedMatch(m) ==
  /\ DOMAIN m = {"keyword", "weight", "count"}
  /\ m.weight > 0
  /\ m.count > 0

WellFormedResult(result) ==
  /\ DOMAIN result = {"scores", "raw_scores", "matches", "dominant_role",
                      "total_keywords_matched"}
  /\ DOMAIN result.scores = RoleSet
  /\ DOMAIN result.raw_scores = RoleSet
  /\ DOMAIN result.matches = RoleSet
  /\ \A r \in RoleSet :
       /\ WellFormedScore(result.scores[r])
       /\ result.raw_scores[r] >= 0
       /\ \A k \in 1..Len(result.matches[r]) : WellFormedMatch(result.matches[r][k])
  /\ result.dominant_role \in RoleSet

Blank(text) == \A i \in 1..Len(text) : text[i] \in Whitespace

\* C3: every text, the empty and the whitespace-only ones included, yields a
\* well-formed result: a normalized score, a raw score and a match list for
\* each of the four archetypes, and a dominant archetype among the four; an
\* empty or whitespace-only text gets the equal distribution.
C3_AlwaysWellFormed ==
  Scored =>
    /\ WellFormedResult(scores)
    /\ Blank(resume_text) => \A r \in RoleSet : FracEq(scores.scores[r], Quarter)

\* a scored text of whitespace only
C3_Witness == Scored /\ resume_text # <<>> /\ Blank(resume_text)

\* C4: no archetype has a normalized score above the dominant one's, and every
\* archetype declared before the dominant one has a strictly smaller score.
C4_DominantIsFirstMaximum ==
  Scored =>
    \A i \in 1..Len(Roles) :
      /\ ~FracLess(scores.scores[scores.dominant_role], scores.scores[Roles[i]])
      /\ i < RoleIndex(scores.dominant_role)
           => FracLess(scores.scores[Roles[i]], scores.scores[scores.dominant_role])

\* Enabler and Thriver share the maximum, above Builder
C4_Witness ==
  /\ Scored
  /\ scores.raw_scores["Enabler"] > scores.raw_scores["Builder"]
  /\ scores.raw_scores["Enabler"] = scores.raw_scores["Thriver"]
  /\ scores.raw_scores["Enabler"] >= scores.raw_scores["Supportee"]
  /\ scores.dominant_role = "Enabler"

\* the text is w, n times with sep, and then tail
IsRepeatText(text, w, sep, tail) ==
  LET n == (Len(text) - Len(tail)) \div (Len(w) + Len(sep))
  IN n >= 1 /\ text = RepeatText(w, n, sep, tail)

RepeatsOf(text, w, sep, tail) == (Len(text) - Len(tail)) \div (Len(w) + Len(sep))

\* C5: a text that repeats a word n >= 5 times has the raw scores of the text
\* that repeats it 5 times, and the word's match record holds the count n.
C5_CapAtFive ==
  Scored =>
    \A w \in Words, sep \in Separators :
      (IsRepeatText(resume_text, w, sep, <<>>)
         /\ RepeatsOf(resume_text, w, sep, <<>>) >= RepeatCap)
        => /\ scores.raw_scores =
                score_resume(RepeatText(w, RepeatCap, sep, <<>>)).raw_scores
           /\ \A r \in RoleSet : \A k \in 1..Len(scores.matches[r]) :
                scores.matches[r][k].keyword = w
                  => scores.matches[r][k].count = RepeatsOf(resume_text, w, sep, <<>>)
           /\ w # <<"c","a","l","l","e","d">>
                => \E r \in RoleSet : \E k \in 1..Len(scores.matches[r]) :
                     scores.matches[r][k].keyword = w

\* "led" ten times
C5_Witness ==
  /\ Scored
  /\ resume_text = RepeatText(<<"l","e","d">>, 10, <<" ">>, <<>>)
  /\ scores.matches["Builder"] = <<[keyword |-> <<"l","e","d">>, weight |-> 13, count |-> 10]>>

MatchedKeywords(result, r) ==
  {result.matches[r][k].keyword : k \in 1..Len(result.matches[r])}

\* C7 as stated: for the example text the Builder terms matched are led,
\* strategic, architecture and scalable, Builder is dominant and its
\* normalized score is above 0.5.
C7_AsStated ==
  (Scored /\ resume_text = ExampleText)
    => /\ MatchedKeywords(scores, "Builder") =
            { <<"l","e","d">>, <<"s","t","r","a","t","e","g","i","c">>,
              <<"a","r","c","h","i","t","e","c","t","u","r","e">>,
              <<"s","c","a","l","a","b","l","e">> }
       /\ scores.dominant_role = "Builder"
       /\ FracLess(Half, scores.scores["Builder"])

\* C7: for the example text the Builder terms matched are led, strategic,
\* architecture, scalable and platform, Builder is dominant and its
\* normalized score is above 0.5.
C7_ExampleText ==
  (Scored /\ resume_text = ExampleText)
    => /\ MatchedKeywords(scores, "Builder") =
            { <<"l","e","d">>, <<"s","t","r","a","t","e","g","i","c">>,
              <<"a","r","c","h","i","t","e","c","t","u","r","e">>,
              <<"s","c","a","l","a","b","l","e">>,
              <<"p","l","a","t","f","o","r","m">> }
       /\ scores.dominant_role = "Builder"
       /\ FracLess(Half, scores.scores["Builder"])

\* the example text, scored
C7_Witness == Scored /\ resume_text = ExampleText /\ scores.total_keywords_matched = 5

(***************************************************************************)
(* The renderer as a state machine: the collaborator's behaviour, the      *)
(* summary and the archetype are given, generate_latex_from_resume is      *)
(* applied to them.                                                        *)
(***************************************************************************)
InitRender ==
  /\ resume_text = None
  /\ scores \in Analyses
  /\ dominant_role = scores.dominant_role
  /\ \/ /\ generation_type = "Full Resume"
        /\ extraction \in Extractions
        /\ rewritten_summary = <<"Results-driven engineer.">>
     \/ /\ generation_type = "Full Resume"
        /\ extraction \in ExtractionsForEverySummary
        /\ rewritten_summary \in Summaries
     \/ /\ generation_type = "Summary Only"
        /\ extraction = NotCalled
        /\ rewritten_summary \in Summaries
  /\ latex_code = Pending
  /\ ValidatorIdle
  /\ CallsIdle
  /\ InteractiveIdle

\* app.py lines 661-667: the button in the mode "Full Resume"
GenerateLatex ==
  /\ generation_type = "Full Resume"
  /\ latex_code = Pending
  /\ latex_code' = generate_latex_from_resume(extraction, rewritten_summary,
                                              dominant_role, scores.scores)
  /\ UNCHANGED <<scorerVars, extraction, rewritten_summary, dominant_role,
                 generation_type, validatorVars, callVars, chatVars, sandboxVars>>
  /\ compiled_pdf' = NoPdf  \* app.py line 677

\* app.py lines 668-674: the button in the mode "Summary Only"
GenerateSimpleLatex ==
  /\ generation_type = "Summary Only"
  /\ latex_code = Pending
  /\ latex_code' = Returned(generate_simple_latex(
                               <<"Your Name">>, <<"email@example.com | (555) 123-4567">>,
                               rewritten_summary, dominant_role))
  /\ UNCHANGED <<scorerVars, extraction, rewritten_summary, dominant_role,
                 generation_type, validatorVars, callVars, chatVars, sandboxVars>>
  /\ compiled_pdf' = NoPdf  \* app.py line 677

NextRender == GenerateLatex \/ GenerateSimpleLatex

SpecRender == InitRender /\ [][NextRender]_vars

(***************************************************************************)
(* Properties of the renderer (SpecRender).                                *)
(***************************************************************************)
Rendered == latex_code # Pending

Replied == extraction.outcome = "reply"

Fields == {"name", "contact", "experience", "skills", "education"}

\* the fixed default text of each field
DefaultOf ==
  [name       |-> <<"Your Name">>,
   contact    |-> <<"email@example.com | (555) 123-4567">>,
   experience |-> <<"Experience details here">>,
   skills     |-> <<"Skills here">>,
   education  |-> <<"Education details here">>]

PlaceholderOf ==
  [name       |-> "<<NAME>>",
   contact    |-> "<<CONTACT_INFO>>",
   experience |-> "<<EXPERIENCE>>",
   skills     |-> "<<SKILLS>>",
   education  |-> "<<EDUCATION>>"]

ContainsPlaceholder(text) == \E i \in 1..Len(text) : text[i] \in Placeholders

\* the fields the reply was parsed into
ExtractedFields == ParseSections(extraction.content)

Populated(sections) == \A f \in Fields : f \in DOMAIN sections /\ sections[f] # <<>>

AbsentOrEmpty(sections, f) == f \notin DOMAIN sections \/ sections[f] = <<>>

\* what the document holds in the slot of a field: the text between the two
\* stretches of the template that surround the field's placeholder
SlotOf(text, f) ==
  LET j == CHOOSE k \in 1..Len(LATEX_TEMPLATE) : LATEX_TEMPLATE[k] = PlaceholderOf[f]
      from == CHOOSE k \in 1..Len(text) : text[k] = LATEX_TEMPLATE[j - 1]
      to == CHOOSE k \in 1..Len(text) : text[k] = LATEX_TEMPLATE[j + 1]
  IN SubSeq(text, from + 1, to - 1)

\* C8 as stated: when all the fields are populated the rendered document
\* contains no placeholder token, whatever the field values are.
C8_AsStated ==
  (Rendered /\ Replied /\ Populated(ExtractedFields))
    => ~latex_code.raised /\ ~ContainsPlaceholder(latex_code.text)

\* C8: when all the fields are populated and neither a field value nor the
\* summary contains a placeholder token, the rendered document contains no
\* placeholder token.
C8_NoPlaceholderLeft ==
  (/\ Rendered /\ Replied /\ Populated(ExtractedFields)
   /\ \A f \in Fields : ~ContainsPlaceholder(ExtractedFields[f])
   /\ ~ContainsPlaceholder(rewritten_summary))
    => ~latex_code.raised /\ ~ContainsPlaceholder(latex_code.text)

\* a document rendered from five populated fields, the experience block with
\* a bullet line, and no placeholder token in any value
C8_Witness ==
  /\ Rendered /\ Replied /\ Populated(ExtractedFields)
  /\ \A f \in Fields : ~ContainsPlaceholder(ExtractedFields[f])
  /\ ~ContainsPlaceholder(rewritten_summary)
  /\ \E i \in 1..Len(ExtractedFields["experience"]) : ExtractedFields["experience"][i] = "-"
  /\ \E i \in 1..Len(latex_code.text) : latex_code.text[i] = "\\end{itemize}"

\* C9 as stated: rendering a reply never raises, and every field that is
\* absent or empty in the extracted fields has its default text in its slot.
C9_AsStated ==
  (Rendered /\ Replied)
    => /\ ~latex_code.raised
       /\ \A f \in Fields :
            AbsentOrEmpty(ExtractedFields, f) => SlotOf(latex_code.text, f) = DefaultOf[f]

\* C10 as stated: when the call to the extraction collaborator fails, the
\* renderer returns a document without placeholder tokens in which every
\* field slot holds its default text.
C10_AsStated ==
  (Rendered /\ extraction.outcome = "api_error")
    => /\ ~latex_code.raised
       /\ ~ContainsPlaceholder(latex_code.text)
       /\ \A f \in Fields : SlotOf(latex_code.text, f) = DefaultOf[f]

\* the accent the specification gives to each archetype
AccentOf ==
  [Builder   |-> "BuilderColor",
   Enabler   |-> "EnablerColor",
   Thriver   |-> "ThriverColor",
   Supportee |-> "SupporteeColor"]

\* what a document holds right after each of the given stretches of a template
SlotsAfter(text, stretches) ==
  {text[i + 1] : i \in {j \in 1..(Len(text) - 1) : text[j] \in stretches}}

\* C11: each archetype has its own accent (Builder -> BuilderColor, Enabler ->
\* EnablerColor, Thriver -> ThriverColor, Supportee -> SupporteeColor, and four
\* different RGB triples in the summary-only document); the accent slots of a
\* rendered document hold the accent of the archetype, and the document the
\* renderer returns is the same for every score map passed to it.
C11_AccentByArchetypeOnly ==
  /\ \A r \in RoleSet : get_color_for_role(r) = AccentOf[r]
  /\ \A r1, r2 \in RoleSet :
       r1 # r2 => /\ get_color_for_role(r1) # get_color_for_role(r2)
                  /\ rgb_values[r1] # rgb_values[r2]
  /\ (Rendered /\ generation_type = "Full Resume") =>
       /\ Replied =>
            SlotsAfter(latex_code.text, {LATEX_TEMPLATE[1], LATEX_TEMPLATE[3]})
              = {AccentOf[dominant_role]}
       /\ \A m \in ScoreMaps :
            generate_latex_from_resume(extraction, rewritten_summary, dominant_role, m)
              = latex_code
  /\ (Rendered /\ generation_type = "Summary Only") =>
       SlotsAfter(latex_code.text, {SIMPLE_TEMPLATE[1]}) = {rgb_values[dominant_role]}

\* a Thriver document rendered from a reply, although some score map a caller
\* may pass puts another archetype first
C11_Witness ==
  /\ Rendered /\ Replied /\ dominant_role = "Thriver"
  /\ SlotsAfter(latex_code.text, {LATEX_TEMPLATE[1]}) = {"ThriverColor"}
  /\ \E m \in ScoreMaps : MaxKey(m, Roles) = "Supportee"


ListOpening == "\\begin{itemize}[leftmargin=*]"

ListClosing == "\\end{itemize}"

CountOf(text, atom) == Cardinality({i \in 1..Len(text) : text[i] = atom})

\* the number of lists open after the text, read from `depth' lists open; -1
\* when a list is opened inside a list or closed outside one
RECURSIVE ListsOpenAfter(_, _)
ListsOpenAfter(text, depth) ==
  IF depth < 0 \/ text = <<>> THEN depth
  ELSE IF Head(text) = ListOpening
    THEN ListsOpenAfter(Tail(text), IF depth = 0 THEN 1 ELSE -1)
  ELSE IF Head(text) = ListClosing
    THEN ListsOpenAfter(Tail(text), IF depth = 1 THEN 0 ELSE -1)
  ELSE ListsOpenAfter(Tail(text), depth)

\* the experience slot of the rendered document
ExperienceSlot == SlotOf(latex_code.text, "experience")

\* the last line of the experience block that was extracted
LastExperienceLine ==
  LET lines == Split(ExtractedFields["experience"]) IN lines[Len(lines)]

\* C12: in the formatted experience block of every document rendered from a
\* reply there are as many \end{itemize} as \begin{itemize}, no list is opened
\* inside another, and no list is open at the end of the block.
C12_ListsClosed ==
  (Rendered /\ Replied) =>
    /\ ~latex_code.raised
    /\ CountOf(ExperienceSlot, ListClosing) = CountOf(ExperienceSlot, ListOpening)
    /\ ListsOpenAfter(ExperienceSlot, 0) = 0

\* a block of two bullet runs with a line in between, ending on a bullet line
C12_Witness ==
  /\ Rendered /\ Replied
  /\ "experience" \in DOMAIN ExtractedFields
  /\ ExtractedFields["experience"] # <<>>
  /\ Head(LastExperienceLine) \in Bullets
  /\ CountOf(ExperienceSlot, ListOpening) = 2
  /\ ExperienceSlot[Len(ExperienceSlot)] = ListClosing


(***************************************************************************)
(* e2b_runner.py and latex_generator.py: the structural validator.         *)
(*                                                                         *)
(* Here a document is a sequence of one-character strings, and an error    *)
(* message a sequence of the pieces its text is formatted from.            *)
(***************************************************************************)
\* r'\documentclass'
DocumentClass == <<"\\","d","o","c","u","m","e","n","t","c","l","a","s","s">>

\* r'\begin{document}'
BeginDocument == <<"\\","b","e","g","i","n","{","d","o","c","u","m","e","n","t","}">>

\* r'\end{document}'
EndDocument == <<"\\","e","n","d","{","d","o","c","u","m","e","n","t","}">>

\* r'\\' and r'\\\\'
DoubleBackslash == <<"\\","\\">>

FourBackslashes == <<"\\","\\","\\","\\">>

\* the prefixes of the patterns r'\\begin\{(\w+)\}' and r'\\end\{(\w+)\}'
BeginPrefix == <<"\\","b","e","g","i","n","{">>

EndPrefix == <<"\\","e","n","d","{">>

StartsAt(s, sub, i) ==
  /\ i + Len(sub) - 1 <= Len(s)
  /\ \A k \in 1..Len(sub) : s[i + k - 1] = sub[k]

\* sub in s
Contains(s, sub) == \E i \in 1..Len(s) : StartsAt(s, sub, i)

\* s.count(c) for a one-character string c
Count(s, c) == Cardinality({i \in 1..Len(s) : s[i] = c})

\* the first position from j on that holds no \w character
RECURSIVE WordEnd(_, _)
WordEnd(s, j) == IF IsWordAt(s, j) THEN WordEnd(s, j + 1) ELSE j

\* re.findall(prefix + r'(\w+)\}', s): the names captured, left to right
RECURSIVE FindAll(_, _, _)
FindAll(prefix, s, i) ==
  IF i > Len(s) THEN <<>>
  ELSE IF /\ StartsAt(s, prefix, i)
          /\ WordEnd(s, i + Len(prefix)) > i + Len(prefix)
          /\ WordEnd(s, i + Len(prefix)) <= Len(s)
          /\ s[WordEnd(s, i + Len(prefix))] = "}"
    THEN <<SubSeq(s, i + Len(prefix), WordEnd(s, i + Len(prefix)) - 1)>>
           \o FindAll(prefix, s, WordEnd(s, i + Len(prefix)) + 1)
    ELSE FindAll(prefix, s, i + 1)

\* the keys of the dictionary of counts built from a list of names
Keys(envs) == {envs[i] : i \in 1..Len(envs)}

\* counts.get(env, 0) for that dictionary
Occurrences(envs, env) == Cardinality({i \in 1..Len(envs) : envs[i] = env})

\* Iterating over a set of strings: the order follows the hashes of the
\* strings, which CPython salts anew in every run of the interpreter.
\* hash_order lists the names in the order of the current run.
SetIteration(S, hash_order) == SelectSeq(hash_order, LAMBDA env : env \in S)

\* variant: the message gives the difference of the two counts
UnbalancedBracesByDifference(open_braces, close_braces, joiner) ==
  <<"Unbalanced braces: ", ToString(open_braces - close_braces), " more opening">>

UnbalancedBraces(open_braces, close_braces, joiner) ==
  <<"Unbalanced braces: ", ToString(open_braces), " opening", joiner,
    ToString(close_braces), " closing">>

UnbalancedEnvironment(env, b, e, joiner) ==
  <<"Unbalanced environment '">> \o env
    \o <<"': ", ToString(b), " begins", joiner, ToString(e), " ends">>

\* variant: the region `document' is left to the checks of the two markers
RECURSIVE EnvironmentFindingsButDocument(_, _, _, _)
EnvironmentFindingsButDocument(order, begins, ends, joiner) ==
  IF order = <<>> THEN <<>>
  ELSE LET env == Head(order)
           b == Occurrences(begins, env)
           e == Occurrences(ends, env)
       IN <<IF b # e /\ env # <<"d","o","c","u","m","e","n","t">>
              THEN <<UnbalancedEnvironment(env, b, e, joiner)>> ELSE <<>> >>
            \o EnvironmentFindingsButDocument(Tail(order), begins, ends, joiner)

\* the loop over the names: for each name, in the order of the iteration,
\* the messages appended for it (one or none)
RECURSIVE EnvironmentFindings(_, _, _, _)
EnvironmentFindings(order, begins, ends, joiner) ==
  IF order = <<>> THEN <<>>
  ELSE LET env == Head(order)
           b == Occurrences(begins, env)
           e == Occurrences(ends, env)
       IN <<IF b # e THEN <<UnbalancedEnvironment(env, b, e, joiner)>> ELSE <<>> >>
            \o EnvironmentFindings(Tail(order), begins, ends, joiner)

\* variant: the validator returns at the first check that fails
CollectFirst(findings) ==
  IF Concat(findings) = <<>> THEN <<>> ELSE <<Head(Concat(findings))>>

\* the list the appends of all the checks leave, each check run in turn
Collect(findings) == Concat(findings)

\* the checks both validators make, in their order; per check the messages
\* it appends
Findings(latex, hash_order, joiner) ==
  LET begins == FindAll(BeginPrefix, latex, 1)
      ends == FindAll(EndPrefix, latex, 1)
      open_braces == Count(latex, "{")
      close_braces == Count(latex, "}")
  IN << IF ~Contains(latex, DocumentClass)
          THEN << <<"Missing \\documentclass declaration">> >> ELSE <<>>,
        IF ~Contains(latex, BeginDocument)
          THEN << <<"Missing \\begin{document}">> >> ELSE <<>>,
        IF ~Contains(latex, EndDocument)
          THEN << <<"Missing \\end{document}">> >> ELSE <<>>,
        IF open_braces # close_braces
          THEN <<UnbalancedBraces(open_braces, close_braces, joiner)>> ELSE <<>> >>
       \o EnvironmentFindings(SetIteration(Keys(begins) \cup Keys(ends), hash_order),
                              begins, ends, joiner)

\* variant: a report with warnings is not valid
ValidationReportStrict(errors, warnings) ==
  [valid |-> Len(errors) = 0 /\ Len(warnings) = 0, errors |-> errors,
   warnings |-> warnings]

\* e2b_runner.py lines 228-232
ValidationReport(errors, warnings) ==
  [valid |-> Len(errors) = 0, errors |-> errors, warnings |-> warnings]

\* e2b_runner.validate_latex_syntax, which app.py imports as validate_latex
validate_latex(latex, hash_order) ==
  ValidationReport(
    Collect(Findings(latex, hash_order, ", ")),
    IF Contains(latex, DoubleBackslash) /\ ~Contains(latex, FourBackslashes)
      THEN << <<"Check line breaks - use \\\\ for line breaks in LaTeX">> >>
      ELSE <<>>)

\* variant: the line-break warning counts as an issue
validate_latex_syntax_with_warnings(latex, hash_order) ==
  LET issues == Collect(Findings(latex, hash_order, " vs "))
                  \o validate_latex(latex, hash_order).warnings
  IN <<Len(issues) = 0, issues>>

\* latex_generator.validate_latex_syntax: the pair (is_valid, issues)
validate_latex_syntax(latex, hash_order) ==
  LET issues == Collect(Findings(latex, hash_order, " vs "))
  IN <<Len(issues) = 0, issues>>

(***************************************************************************)
(* Inputs of the validator.                                                *)
(***************************************************************************)
\* the most tokens between the begin-document and the end-document marker
MaxBodyTokens == 2

Declaration == <<"\\","d","o","c","u","m","e","n","t","c","l","a","s","s","{","a","r","t","i","c","l","e","}">>

BodyTokens ==
  { <<"\\","b","e","g","i","n","{","i","t","e","m","i","z","e","}">>,
    <<"\\","e","n","d","{","i","t","e","m","i","z","e","}">>,
    <<"\\","b","e","g","i","n","{","c","e","n","t","e","r","}">>,
    <<"\\","b","e","g","i","n","{","a","l","i","g","n","*","}">>,
    <<"{">>, <<"}">>, DoubleBackslash }

\* the declaration, the two markers and a body in between, each part there
\* or not
Frames ==
  {<<dc, bd, ed>> :
     dc \in {<<>>, Declaration}, bd \in {<<>>, BeginDocument}, ed \in {<<>>, EndDocument}}

\* all three parts there, none of them there, the end-document marker alone
\* not there
MainFrames ==
  { <<Declaration, BeginDocument, EndDocument>>, << <<>>, <<>>, <<>> >>,
    <<Declaration, BeginDocument, <<>> >> }

Framed(frame, body) == Concat(<<frame[1], frame[2]>> \o body \o <<frame[3]>>)

\* the longest bodies in the main frames, the others in every frame
Documents ==
  {Framed(frame, body) :
     frame \in MainFrames, body \in SeqsUpTo(BodyTokens, MaxBodyTokens)}
    \cup {Framed(frame, body) :
            frame \in Frames, body \in SeqsUpTo(BodyTokens, MaxBodyTokens - 1)}

RegionNames ==
  { <<"d","o","c","u","m","e","n","t">>,
    <<"i","t","e","m","i","z","e">>,
    <<"c","e","n","t","e","r">> }

\* two of the orders in which a run may iterate over the region names
HashOrders ==
  { << <<"d","o","c","u","m","e","n","t">>,
       <<"i","t","e","m","i","z","e">>,
       <<"c","e","n","t","e","r">> >>,
    << <<"c","e","n","t","e","r">>,
       <<"i","t","e","m","i","z","e">>,
       <<"d","o","c","u","m","e","n","t">> >> }

(***************************************************************************)
(* The validator as a state machine: a document is given and validated,    *)
(* any number of times, by either function; the program may be started     *)
(* again in between.                                                       *)
(***************************************************************************)
InitValidate ==
  /\ resume_text = None
  /\ scores = Pending
  /\ extraction = None
  /\ rewritten_summary = None
  /\ dominant_role = None
  /\ generation_type = None
  /\ latex_code = Pending
  /\ document \in Documents
  /\ hash_seed \in HashOrders
  /\ validation = Pending
  /\ previous_validation = Pending
  /\ syntax_check = Pending
  /\ CallsIdle
  /\ InteractiveIdle

\* app.py line 681
ValidateLatex ==
  /\ validation' = validate_latex(document, hash_seed)
  /\ previous_validation' = validation
  /\ UNCHANGED <<scorerVars, rendererVars, callVars, interactiveVars, document, hash_seed, syntax_check>>

ValidateLatexSyntax ==
  /\ syntax_check' = validate_latex_syntax(document, hash_seed)
  /\ UNCHANGED <<scorerVars, rendererVars, callVars, interactiveVars, document, hash_seed, validation,
                 previous_validation>>

\* The program is started again: the new interpreter salts the hashes of
\* strings anew, so its sets of strings iterate in another order.  What the
\* validators returned before stays with their caller.
Restart ==
  /\ hash_seed' \in HashOrders \ {hash_seed}
  /\ UNCHANGED <<scorerVars, rendererVars, callVars, interactiveVars, document, validation,
                 previous_validation, syntax_check>>

NextValidate == ValidateLatex \/ ValidateLatexSyntax \/ Restart

SpecValidate == InitValidate /\ [][NextValidate]_vars

(***************************************************************************)
(* Properties of the validator (SpecValidate).                             *)
(***************************************************************************)
Validated == validation # Pending

SyntaxChecked == syntax_check # Pending

\* C13: in every report valid is true exactly when the errors are empty, in
\* the pair of latex_generator too; a report with warnings and no errors is
\* valid.
C13_ValidIffNoErrors ==
  /\ Validated => (validation.valid <=> validation.errors = <<>>)
  /\ SyntaxChecked => (syntax_check[1] <=> syntax_check[2] = <<>>)

\* a valid report that carries the line-break warning
C13_Witness ==
  /\ Validated /\ validation.valid /\ validation.warnings # <<>>
  /\ SyntaxChecked /\ syntax_check[1]

\* the number of places of a document where a marker stands
MarkerCount(doc, marker) == Cardinality({i \in 1..Len(doc) : StartsAt(doc, marker, i)})

BeginsOf(doc, env) == MarkerCount(doc, BeginPrefix \o env \o <<"}">>)

EndsOf(doc, env) == MarkerCount(doc, EndPrefix \o env \o <<"}">>)

ImbalancedRegions(doc) == {env \in RegionNames : BeginsOf(doc, env) # EndsOf(doc, env)}

\* the errors a document calls for, one per check it violates, formatted
\* with the joiner of the validator
ExpectedErrors(doc, joiner) ==
  (IF ~Contains(doc, DocumentClass)
     THEN { <<"Missing \\documentclass declaration">> } ELSE {})
    \cup (IF ~Contains(doc, BeginDocument) THEN { <<"Missing \\begin{document}">> } ELSE {})
    \cup (IF ~Contains(doc, EndDocument) THEN { <<"Missing \\end{document}">> } ELSE {})
    \cup (IF Count(doc, "{") # Count(doc, "}")
            THEN {UnbalancedBraces(Count(doc, "{"), Count(doc, "}"), joiner)} ELSE {})
    \cup {UnbalancedEnvironment(env, BeginsOf(doc, env), EndsOf(doc, env), joiner) :
            env \in ImbalancedRegions(doc)}

Range(s) == {s[i] : i \in 1..Len(s)}

\* C14: the report holds an error for every check the document violates and
\* no other: a document that violates k checks has k errors, whatever failed
\* first.
C14_EveryCheckReported ==
  /\ Validated =>
       LET expected == ExpectedErrors(document, ", ")
       IN /\ Range(validation.errors) = expected
          /\ Len(validation.errors) = Cardinality(expected)
  /\ SyntaxChecked =>
       LET expected == ExpectedErrors(document, " vs ")
       IN /\ Range(syntax_check[2]) = expected
          /\ Len(syntax_check[2]) = Cardinality(expected)

\* a document that violates five checks: no declaration, neither marker,
\* more opening than closing braces, a region that is not closed
C14_Witness ==
  /\ Validated /\ SyntaxChecked
  /\ ~Contains(document, DocumentClass)
  /\ ~Contains(document, BeginDocument)
  /\ ~Contains(document, EndDocument)
  /\ Count(document, "{") > Count(document, "}")
  /\ ImbalancedRegions(document) # {}
  /\ Len(validation.errors) = 5
  /\ Len(syntax_check[2]) = 5

\* a document with the declaration and the begin-document marker, without the
\* end-document marker, its braces balanced and every other region balanced
LacksOnlyEndDocument(doc) ==
  /\ Contains(doc, DocumentClass)
  /\ Contains(doc, BeginDocument)
  /\ ~Contains(doc, EndDocument)
  /\ Count(doc, "{") = Count(doc, "}")
  /\ ImbalancedRegions(doc) \subseteq { <<"d","o","c","u","m","e","n","t">> }

\* C15 as stated: such a document yields valid == false and exactly one
\* error, the one that names the end-document marker.
C15_AsStated ==
  (Validated /\ LacksOnlyEndDocument(document)) =>
    /\ ~validation.valid
    /\ validation.errors = << <<"Missing \\end{document}">> >>

\* C15: such a document yields valid == false and exactly two errors: the one
\* that names the end-document marker, and after it the one that reports the
\* region `document' as imbalanced, with its begins against 0 ends.
C15_MissingEndDocument ==
  /\ (Validated /\ LacksOnlyEndDocument(document)) =>
       /\ ~validation.valid
       /\ validation.errors =
            << <<"Missing \\end{document}">>,
               UnbalancedEnvironment(<<"d","o","c","u","m","e","n","t">>,
                                     BeginsOf(document, <<"d","o","c","u","m","e","n","t">>), 0, ", ") >>
  /\ (SyntaxChecked /\ LacksOnlyEndDocument(document)) =>
       /\ ~syntax_check[1]
       /\ syntax_check[2] =
            << <<"Missing \\end{document}">>,
               UnbalancedEnvironment(<<"d","o","c","u","m","e","n","t">>,
                                     BeginsOf(document, <<"d","o","c","u","m","e","n","t">>), 0, " vs ") >>

\* such a document with a balanced list region in its body, validated by both
C15_Witness ==
  /\ Validated /\ SyntaxChecked
  /\ LacksOnlyEndDocument(document)
  /\ BeginsOf(document, <<"i","t","e","m","i","z","e">>) = 1
  /\ Len(validation.errors) = 2

\* C16 as stated: a document validated twice gets the same report both
\* times: the same valid, the same errors in the same order, the same
\* warnings.
C16_AsStated ==
  (Validated /\ previous_validation # Pending) => validation = previous_validation

(***************************************************************************)
(* Properties of the scoring engine (SpecScore): occurrences, match lists  *)
(* and raw scores.                                                         *)
(***************************************************************************)
\* the text the terms are looked up in
NormalizedText == preprocess_text(resume_text)

\* the term stands at position i of the text and is no part of a longer
\* word: neither the character before it nor the one after it is a letter,
\* a digit or an underscore
WholeWordAt(term, text, i) ==
  /\ StartsAt(text, term, i)
  /\ ~IsWordAt(text, i - 1)
  /\ ~IsWordAt(text, i + Len(term))

\* the positions where the term stands as a whole word; none when a
\* character of the term is not among the characters of the text
WholeWordPositions(term, text, chars) ==
  IF \E k \in 1..Len(term) : term[k] \notin chars THEN {}
  ELSE {i \in 1..Len(text) : WholeWordAt(term, text, i)}

\* per term of a list of lexicon entries, the number of those positions
RECURSIVE WholeWordCounts(_, _, _, _)
WholeWordCounts(keywords, text, chars, k) ==
  IF k > Len(keywords) THEN <<>>
  ELSE <<Cardinality(WholeWordPositions(keywords[k].keyword, text, chars))>>
         \o WholeWordCounts(keywords, text, chars, k + 1)

\* the counts of the terms of the archetype r in the normalized text
CountsOf(r) ==
  WholeWordCounts(ROLECOLOR_KEYWORDS[RoleIndex(r)].keywords, NormalizedText,
                  Range(NormalizedText), 1)

KeywordsOf(r) == ROLECOLOR_KEYWORDS[RoleIndex(r)].keywords

\* weight * (1 + 0.3 * (min(count, 5) - 1)) in hundredths, the weight in tenths
Contribution(weight, count) ==
  IF count = 0 THEN 0
  ELSE IF count = 1 THEN 10 * weight
  ELSE IF count < 5 THEN weight * (10 + 3 * (count - 1))
  ELSE weight * 22

RECURSIVE SumOfContributions(_, _, _)
SumOfContributions(keywords, counts, k) ==
  IF k > Len(keywords) THEN 0
  ELSE Contribution(keywords[k].weight, counts[k])
         + SumOfContributions(keywords, counts, k + 1)

\* C18: the raw score of every archetype is the sum, over its terms that
\* occur at least once, of weight * (1 + 0.3 * (min(count, 5) - 1)): a term
\* that occurs once adds its weight, a term that does not occur adds nothing.
C18_RawScoreIsSumOfContributions ==
  Scored =>
    \A r \in RoleSet :
      scores.raw_scores[r] = SumOfContributions(KeywordsOf(r), CountsOf(r), 1)

\* two Supportee terms once each (1.3 + 1.1), or one Builder term twice
\* (1.3 * 1.3)
C18_Witness ==
  /\ Scored
  /\ \/ /\ Len(scores.matches["Supportee"]) = 2
        /\ \A i \in 1..2 : scores.matches["Supportee"][i].count = 1
        /\ scores.raw_scores["Supportee"] = 240
     \/ /\ Len(scores.matches["Builder"]) = 1
        /\ scores.matches["Builder"][1].count = 2
        /\ scores.raw_scores["Builder"] = 169

\* the entries of a list of lexicon entries whose count is not 0, in the
\* order of the list, as pairs of term and weight
RECURSIVE OccurringTerms(_, _, _)
OccurringTerms(keywords, counts, k) ==
  IF k > Len(keywords) THEN <<>>
  ELSE (IF counts[k] > 0 THEN << <<keywords[k].keyword, keywords[k].weight>> >> ELSE <<>>)
         \o OccurringTerms(keywords, counts, k + 1)

RECURSIVE TermsAndWeights(_)
TermsAndWeights(matches) ==
  IF matches = <<>> THEN <<>>
  ELSE << <<Head(matches).keyword, Head(matches).weight>> >> \o TermsAndWeights(Tail(matches))

\* C19: the match list of every archetype holds one record for each of its
\* terms that occurs at least once, in the order of the lexicon, with the
\* weight of the lexicon and a count of at least 1, and no other record.
C19_OneRecordPerOccurringTerm ==
  Scored =>
    \A r \in RoleSet :
      /\ TermsAndWeights(scores.matches[r]) = OccurringTerms(KeywordsOf(r), CountsOf(r), 1)
      /\ \A i \in 1..Len(scores.matches[r]) : scores.matches[r][i].count >= 1

\* two Supportee terms, the one that comes first in the text being the later
\* one in the lexicon
C19_Witness ==
  /\ Scored
  /\ Len(scores.matches["Supportee"]) = 2
  /\ StartsAt(NormalizedText, scores.matches["Supportee"][2].keyword, 1)
  /\ scores.matches["Builder"] = <<>>

\* the count the result gives for the k-th term of an archetype: that of its
\* record, 0 without a record
CountedOf(r, k) ==
  LET term == KeywordsOf(r)[k].keyword
      records == {i \in 1..Len(scores.matches[r]) : scores.matches[r][i].keyword = term}
  IN IF records = {} THEN 0 ELSE scores.matches[r][CHOOSE i \in records : TRUE].count

\* C20: the count of every term is the number of places where it stands as
\* a whole word, so a place inside a longer word is never counted, and no two
\* of the places counted overlap.
C20_WholeWordsOnly ==
  Scored =>
    \A r \in RoleSet :
      \A k \in 1..Len(KeywordsOf(r)) :
        LET term == KeywordsOf(r)[k].keyword
            places == WholeWordPositions(term, NormalizedText, Range(NormalizedText))
        IN /\ CountedOf(r, k) = Cardinality(places)
           /\ \A i, j \in places : i < j => i + Len(term) <= j

\* "led" inside "called", or "team" inside "teams": the term stands in the
\* text and is not counted
C20_Witness ==
  /\ Scored
  /\ \/ /\ resume_text = <<"c","a","l","l","e","d">>
        /\ scores.matches["Builder"] = <<>>
     \/ /\ resume_text = <<"t","e","a","m","s">>
        /\ Len(scores.matches["Enabler"]) = 1
        /\ scores.matches["Enabler"][1].keyword = <<"t","e","a","m","s">>

(***************************************************************************)
(* Several callers at once.  Every caller makes one call: score_resume,    *)
(* generate_latex_from_resume or validate_latex.  A call to score_resume   *)
(* takes one step per archetype of the lexicon it finds in the module      *)
(* global and one more to build its result; a call to                      *)
(* generate_latex_from_resume takes one step to get and parse the reply    *)
(* and one to fill the template it finds in the module global.  The steps  *)
(* of the callers interleave in every order.  The code of the three        *)
(* functions assigns to local names only, so no finer step of a call can   *)
(* be seen by another call.                                                *)
(***************************************************************************)
MaxCallers == 2

Callers == 1..MaxCallers

CallTexts == { <<"l","e","d">>, <<"f","i","x"," ","l","e","d">> }

CallReplies ==
  { Join(<< <<"NAME:", " ", "text">>, <<"EXPERIENCE:">>, <<"-", " ", "did this">> >>),
    <<"SKILLS:", " ", "text">> }

CallDocuments ==
  { Concat(<<Declaration, BeginDocument, EndDocument>>),
    Concat(<<BeginDocument, <<"\\","b","e","g","i","n","{","i","t","e","m","i","z","e","}">>, <<"{">> >>) }

NewCall(op, arg) == [op |-> op, arg |-> arg, pc |-> 0, local |-> <<>>, result |-> Pending]

NewCalls ==
  {NewCall("score_resume", t) : t \in CallTexts}
    \cup {NewCall("generate_latex_from_resume",
                  [content |-> r, summary |-> <<"Results-driven engineer.">>,
                   role |-> "Enabler"]) : r \in CallReplies}
    \cup {NewCall("validate_latex", d) : d \in CallDocuments}

InitCalls ==
  /\ resume_text = None
  /\ scores = Pending
  /\ extraction = None
  /\ rewritten_summary = None
  /\ dominant_role = None
  /\ generation_type = None
  /\ latex_code = Pending
  /\ document = None
  /\ hash_seed \in HashOrders
  /\ validation = Pending
  /\ previous_validation = Pending
  /\ syntax_check = Pending
  /\ lexicon = ROLECOLOR_KEYWORDS
  /\ template = LATEX_TEMPLATE
  /\ calls \in [Callers -> NewCalls]
  /\ InteractiveIdle

\* resume_scorer.py lines 91-94: one pass of the loop over ROLECOLOR_KEYWORDS
ScoreStep(c) ==
  /\ calls[c].op = "score_resume"
  /\ calls[c].pc < Len(lexicon)
  /\ calls' = [calls EXCEPT
                 ![c].pc = @ + 1,
                 ![c].local = Append(@, calculate_role_score(
                                          preprocess_text(calls[c].arg),
                                          lexicon[calls[c].pc + 1].keywords))]
  /\ UNCHANGED <<scorerVars, rendererVars, validatorVars, lexicon, template, interactiveVars>>

\* resume_scorer.py lines 96-114
ScoreReturn(c) ==
  /\ calls[c].op = "score_resume"
  /\ calls[c].pc = Len(lexicon)
  /\ calls[c].result = Pending
  /\ calls' = [calls EXCEPT ![c].result = ScoreResult(calls[c].local)]
  /\ UNCHANGED <<scorerVars, rendererVars, validatorVars, lexicon, template, interactiveVars>>

\* latex_generator.py lines 130-197: the reply is there and is parsed
ExtractStep(c) ==
  /\ calls[c].op = "generate_latex_from_resume"
  /\ calls[c].pc = 0
  /\ calls' = [calls EXCEPT ![c].pc = 1,
                            ![c].local = ParseSections(calls[c].arg.content)]
  /\ UNCHANGED <<scorerVars, rendererVars, validatorVars, lexicon, template, interactiveVars>>

\* variant: the template is filled in place
TemplateFilledInPlace(latex_template, latex) == latex

\* lines 200-240: latex = LATEX_TEMPLATE, then latex = latex.replace(...):
\* every replace returns a new string, the global keeps its value
TemplateAfterFill(latex_template, latex) == latex_template

\* latex_generator.py lines 200-242
FillStep(c) ==
  /\ calls[c].op = "generate_latex_from_resume"
  /\ calls[c].pc = 1
  /\ LET latex == FillTemplate(template, calls[c].local, calls[c].arg.summary,
                               calls[c].arg.role)
     IN /\ calls' = [calls EXCEPT ![c].pc = 2, ![c].result = Returned(latex)]
        /\ template' = TemplateAfterFill(template, latex)
  /\ UNCHANGED <<scorerVars, rendererVars, validatorVars, lexicon, interactiveVars>>

\* e2b_runner.py lines 179-232
ValidateCall(c) ==
  /\ calls[c].op = "validate_latex"
  /\ calls[c].result = Pending
  /\ calls' = [calls EXCEPT ![c].pc = 1,
                            ![c].result = validate_latex(calls[c].arg, hash_seed)]
  /\ UNCHANGED <<scorerVars, rendererVars, validatorVars, lexicon, template, interactiveVars>>

NextCalls ==
  \E c \in Callers :
    \/ ScoreStep(c)
    \/ ScoreReturn(c)
    \/ ExtractStep(c)
    \/ FillStep(c)
    \/ ValidateCall(c)

SpecCalls == InitCalls /\ [][NextCalls]_vars

(***************************************************************************)
(* Properties of concurrent calls (SpecCalls).                             *)
(***************************************************************************)
\* what the call returns when it is the only one
ResultAlone(call) ==
  CASE call.op = "score_resume" -> score_resume(call.arg)
    [] call.op = "generate_latex_from_resume" ->
         generate_latex_from_resume([outcome |-> "reply", content |-> call.arg.content],
                                    call.arg.summary, call.arg.role,
                                    [r \in RoleSet |-> EqualShare])
    [] call.op = "validate_latex" -> validate_latex(call.arg, hash_seed)

\* C17: however the steps of the callers interleave, the lexicon and the
\* template keep the values they were loaded with, and every call that has
\* returned has returned what it returns when it runs alone.
C17_CallsDoNotInterfere ==
  /\ lexicon = ROLECOLOR_KEYWORDS
  /\ template = LATEX_TEMPLATE
  /\ \A c \in Callers :
       calls[c].result # Pending => calls[c].result = ResultAlone(calls[c])

\* two calls under way at once: a call to score_resume between two passes
\* of its loop, while a call to the renderer has parsed its reply and has not
\* filled the template yet
C17_Witness ==
  \E c, d \in Callers :
    /\ calls[c].op = "score_resume" /\ calls[c].pc \in 1..(Len(lexicon) - 1)
    /\ calls[d].op = "generate_latex_from_resume" /\ calls[d].pc = 1
    /\ calls[d].result = Pending

(***************************************************************************)
(* Case, whitespace and hyphens in matching (SpecScore).                   *)
(***************************************************************************)
CrossHyphenFunctional ==
  <<"c","r","o","s","s","-","f","u","n","c","t","i","o","n","a","l">>

CrossSpaceFunctional ==
  <<"c","r","o","s","s"," ","f","u","n","c","t","i","o","n","a","l">>

\* C21: whatever the casing, "cross" and "functional" with a run of spaces,
\* tabs or newlines in between match the term "cross functional" once and not
\* "cross-functional", with a hyphen in between they match "cross-functional"
\* once and not "cross functional"; "led" in any casing matches "led".
C21_CaseAndWhitespaceButHyphen ==
  Scored =>
    /\ \A first \in CrossCasings, gap \in WordGaps, second \in FunctionalCasings :
         resume_text = first \o gap \o second =>
           \A r \in RoleSet :
             {m \in Range(scores.matches[r]) :
                m.keyword \in {CrossHyphenFunctional, CrossSpaceFunctional}}
               = IF r # "Enabler" THEN {}
                 ELSE IF gap = <<"-">>
                   THEN {[keyword |-> CrossHyphenFunctional, weight |-> 15, count |-> 1]}
                   ELSE {[keyword |-> CrossSpaceFunctional, weight |-> 15, count |-> 1]}
    /\ resume_text \in CasedTexts =>
         scores.matches["Builder"] = <<[keyword |-> <<"l","e","d">>, weight |-> 13, count |-> 1]>>

\* "CROSS", a space, a tab, a newline, "functional": the spaced term is
\* matched
C21_Witness ==
  /\ Scored
  /\ resume_text = <<"C","R","O","S","S">> \o <<" ", "\t", "\n">>
                     \o <<"f","u","n","c","t","i","o","n","a","l">>
  /\ MatchedKeywords(scores, "Enabler") = {CrossSpaceFunctional}

(***************************************************************************)
(* The brace check (SpecValidate).                                         *)
(***************************************************************************)
OpeningBraces == MarkerCount(document, <<"{">>)

ClosingBraces == MarkerCount(document, <<"}">>)

BraceErrors(errors) == {e \in Range(errors) : e[1] = "Unbalanced braces: "}

\* C22: both validators report one brace error, giving the number of '{'
\* and the number of '}', when the two numbers differ, and none when they are
\* equal, wherever the braces stand.
C22_BraceErrorIffCountsDiffer ==
  /\ Validated =>
       BraceErrors(validation.errors) =
         IF OpeningBraces # ClosingBraces
           THEN { <<"Unbalanced braces: ", ToString(OpeningBraces), " opening", ", ",
                    ToString(ClosingBraces), " closing">> }
           ELSE {}
  /\ SyntaxChecked =>
       BraceErrors(syntax_check[2]) =
         IF OpeningBraces # ClosingBraces
           THEN { <<"Unbalanced braces: ", ToString(OpeningBraces), " opening", " vs ",
                    ToString(ClosingBraces), " closing">> }
           ELSE {}

\* a closing brace right before an opening one and as many of the one as of
\* the other: no brace error
C22_Witness ==
  /\ Validated /\ SyntaxChecked
  /\ \E i \in 1..(Len(document) - 1) :
       /\ document[i] = "}" /\ document[i + 1] = "{"
       /\ \A j \in 1..(i - 1) : document[j] \notin {"{", "}"}
  /\ OpeningBraces = ClosingBraces
  /\ BraceErrors(validation.errors) = {}
  /\ BraceErrors(syntax_check[2]) = {}

(***************************************************************************)
(* The region check (SpecValidate).                                        *)
(***************************************************************************)
StarredName == <<"a","l","i","g","n","*">>

\* the names that stand in a begin marker of the document
BegunNames(doc) == {env \in RegionNames \cup {StarredName} : BeginsOf(doc, env) > 0}

\* the places of a list of errors that hold the region error for a name
\* with the two counts
RegionErrorPlaces(errors, env, b, e, joiner) ==
  {i \in 1..Len(errors) :
     errors[i] = <<"Unbalanced environment '">> \o env
                   \o <<"': ", ToString(b), " begins", joiner, ToString(e), " ends">>}

\* the places that hold a region error for a name, whatever the counts
RegionErrorsNaming(errors, env) ==
  {i \in 1..Len(errors) :
     /\ errors[i][1] = "Unbalanced environment '"
     /\ SubSeq(errors[i], 2, Len(errors[i]) - 6) = env}

\* C23 as stated: for every name that stands in a begin marker, both
\* validators report exactly one error, with the name and the two counts,
\* when the numbers of its begin and end markers differ, and no error
\* naming it when they are equal.
C23_AsStated ==
  \A env \in BegunNames(document) :
    LET b == BeginsOf(document, env)
        e == EndsOf(document, env)
    IN /\ Validated =>
            /\ Cardinality(RegionErrorPlaces(validation.errors, env, b, e, ", "))
                 = IF b # e THEN 1 ELSE 0
            /\ RegionErrorsNaming(validation.errors, env)
                 = RegionErrorPlaces(validation.errors, env, b, e, ", ")
       /\ SyntaxChecked =>
            /\ Cardinality(RegionErrorPlaces(syntax_check[2], env, b, e, " vs "))
                 = IF b # e THEN 1 ELSE 0
            /\ RegionErrorsNaming(syntax_check[2], env)
                 = RegionErrorPlaces(syntax_check[2], env, b, e, " vs ")

(***************************************************************************)
(* The layout of the experience block (SpecRender).                        *)
(***************************************************************************)
\* the lines of the experience block that was extracted
ExperienceBlock == Split(ExtractedFields["experience"])

IsBulletLine(line) == line # <<>> /\ Head(line) \in Bullets

\* what the i-th line of a block becomes: a bullet line an item, preceded
\* by the opening of a list when it is the first of its run and followed by
\* the closing when it is the last, any other line an emphasized line
LayoutOfLine(lines, i) ==
  IF IsBulletLine(lines[i])
    THEN (IF i = 1 \/ ~IsBulletLine(lines[i - 1]) THEN << <<ListOpening>> >> ELSE <<>>)
           \o << <<"\\item ">> \o Strip(LStripBullets(lines[i])) >>
           \o (IF i = Len(lines) \/ ~IsBulletLine(lines[i + 1])
                 THEN << <<ListClosing>> >> ELSE <<>>)
    ELSE << <<"\\textbf{">> \o lines[i] \o <<"}\\\\">> >>

RECURSIVE LayoutFrom(_, _)
LayoutFrom(lines, i) ==
  IF i > Len(lines) THEN <<>> ELSE LayoutOfLine(lines, i) \o LayoutFrom(lines, i + 1)

\* C24: the formatted experience block is, line by line in the order of the
\* block, an item for every bullet line and an emphasized line for every
\* other line, with a list opened right before the first bullet line of each
\* run of bullet lines and closed right after the last one of the run.
C24_OneListPerBulletRun ==
  (Rendered /\ Replied /\ ~AbsentOrEmpty(ExtractedFields, "experience")) =>
    /\ ~latex_code.raised
    /\ \A i \in 1..Len(ExperienceBlock) : ExperienceBlock[i] # <<>>
    /\ ExperienceSlot = Join(LayoutFrom(ExperienceBlock, 1))

\* a run of two bullet lines, one of each marker, a line that is no bullet
\* line, and one more bullet line
C24_Witness ==
  /\ Rendered /\ Replied /\ ~AbsentOrEmpty(ExtractedFields, "experience")
  /\ Len(ExperienceBlock) = 4
  /\ Head(ExperienceBlock[1]) = "-" /\ Head(ExperienceBlock[2]) = "U+2022"
  /\ ~IsBulletLine(ExperienceBlock[3]) /\ IsBulletLine(ExperienceBlock[4])
  /\ CountOf(ExperienceSlot, "\\item ") = 3
  /\ CountOf(ExperienceSlot, "\\textbf{") = 1
  /\ CountOf(ExperienceSlot, ListOpening) = 2

(***************************************************************************)
(* Placeholder text inside the values (SpecRender).                        *)
(***************************************************************************)
\* the values substituted as they are: the summary and the fields but the
\* experience block, which is formatted first
VerbatimValues ==
  {rewritten_summary}
    \cup {ExtractedFields[f] : f \in DOMAIN ExtractedFields \ {"experience"}}

\* C25 as stated: a placeholder token inside the summary or a field value
\* stands in the rendered document as it is; it is not replaced by the value
\* of another field.
C25_AsStated ==
  (Rendered /\ Replied /\ ~latex_code.raised) =>
    \A v \in VerbatimValues :
      \A p \in Range(v) \cap Placeholders : p \in Range(latex_code.text)

(***************************************************************************)
(* Text shared by several terms (SpecScore).                               *)
(***************************************************************************)
\* the records of the result, each with its archetype
AllRecords ==
  {<<r, m>> : r \in RoleSet, m \in UNION {Range(scores.matches[q]) : q \in RoleSet}}
    \cap UNION {{<<r, m>> : m \in Range(scores.matches[r])} : r \in RoleSet}

\* the places of the normalized text that an occurrence of a term covers
Covered(term) ==
  UNION {i..(i + Len(term) - 1) :
           i \in WholeWordPositions(term, NormalizedText, Range(NormalizedText))}

\* C26 as stated: no place of the text is covered by the occurrences of two
\* terms, of one archetype or of two; "high-pressure" adds 1.5 to Thriver and
\* "initiative" does not raise both the Builder and the Thriver raw score.
C26_AsStated ==
  Scored =>
    /\ \A x, y \in AllRecords :
         x # y => Covered(x[2].keyword) \cap Covered(y[2].keyword) = {}
    /\ resume_text = HighPressure => scores.raw_scores["Thriver"] = 150
    /\ resume_text = Initiative =>
         ~(scores.raw_scores["Builder"] > 0 /\ scores.raw_scores["Thriver"] > 0)

\* C26: every term of every archetype is counted on its own, so one
\* occurrence of "high-pressure" adds the weights of "high-pressure" and of
\* "pressure" to Thriver (1.5 + 1.3), and one occurrence of "initiative" adds
\* 1.2 to Builder and 1.3 to Thriver.
C26_TermsCountedIndependently ==
  Scored =>
    /\ resume_text = HighPressure =>
         /\ scores.matches["Thriver"] =
              << [keyword |-> HighPressure, weight |-> 15, count |-> 1],
                 [keyword |-> <<"p","r","e","s","s","u","r","e">>, weight |-> 13, count |-> 1] >>
         /\ scores.raw_scores["Thriver"] = 280
    /\ resume_text = Initiative =>
         /\ scores.matches["Builder"] = <<[keyword |-> Initiative, weight |-> 12, count |-> 1]>>
         /\ scores.matches["Thriver"] = <<[keyword |-> Initiative, weight |-> 13, count |-> 1]>>
         /\ scores.raw_scores["Builder"] = 120
         /\ scores.raw_scores["Thriver"] = 130

\* "high-pressure", scored: two Thriver records for one occurrence
C26_Witness ==
  /\ Scored
  /\ resume_text = HighPressure
  /\ Len(scores.matches["Thriver"]) = 2
  /\ scores.total_keywords_matched = 2

(***************************************************************************)
(* The two validators side by side (SpecValidate).                         *)
(***************************************************************************)
\* C27: once both validators have been applied to the document, is_valid
\* of the one equals valid of the other and there are as many issues as
\* errors.
C27_ValidatorsAgree ==
  (Validated /\ SyntaxChecked) =>
    /\ syntax_check[1] = validation.valid
    /\ Len(syntax_check[2]) = Len(validation.errors)

\* both applied to a document with three errors and the line-break warning
C27_Witness ==
  /\ Validated /\ SyntaxChecked
  /\ ~validation.valid
  /\ Len(validation.errors) = 3
  /\ Len(syntax_check[2]) = 3
  /\ validation.warnings # <<>>

(***************************************************************************)
(* app.py, the LaTeX tab: the session keeps latex_code, a string that is   *)
(* empty at first, and compiled_pdf.  One action is one run of the script, *)
(* started by a button or by a change of the editor's text; in a run the   *)
(* buttons are handled before the editor (lines 660, 738, 755, 793, 809).  *)
(***************************************************************************)
\* base64 of the PDF that pdflatex makes of a LaTeX text
PdfOf(latex) == [pdf_of |-> latex]

\* what compile_latex_locally and compile_latex_in_sandbox may return
CompileResults(latex) ==
  { [success |-> TRUE, pdf_data |-> PdfOf(latex), error |-> None],
    [success |-> FALSE, pdf_data |-> NoPdf, error |-> "PDF not generated"],
    [success |-> FALSE, pdf_data |-> NoPdf, error |-> "pdflatex not found"] }

\* the three grave accents (U+0060) that open and close a block of code
CodeFence == "U+0060 U+0060 U+0060"

\* latex_generator.edit_latex_with_ai, given what the collaborator does
edit_latex_with_ai(current_latex, reply) ==
  CASE reply.outcome = "no_key" -> Raised("ValueError")
    [] reply.outcome = "api_error" ->
         Returned(<<"% Error editing LaTeX: ", "api error", "\n">> \o current_latex)
    [] reply.outcome = "reply" ->
         LET stripped == Strip(reply.content)
             lines == Split(stripped)
         IN Returned(IF StartsWith(stripped, CodeFence)
                       THEN Join(IF lines[Len(lines)] = <<CodeFence>>
                                   THEN SubSeq(lines, 2, Len(lines) - 1)
                                   ELSE Tail(lines))
                       ELSE stripped)

\* lines 738-743 and 755-760: a compile button, given the result of the
\* compilation
CompileClicked(code, pdf, compiled) ==
  IF compiled.success THEN compiled.pdf_data ELSE pdf

\* variant: the edit leaves the compiled PDF in place
EditLatexKeepingPdf(code, pdf, edited_latex) ==
  IF edited_latex # code
    THEN [latex_code |-> edited_latex, compiled_pdf |-> pdf]
    ELSE [latex_code |-> code, compiled_pdf |-> pdf]

\* lines 803-811: the editor, given the text it returns
EditLatex(code, pdf, edited_latex) ==
  IF edited_latex # code
    THEN [latex_code |-> edited_latex, compiled_pdf |-> NoPdf]
    ELSE [latex_code |-> code, compiled_pdf |-> pdf]

(***************************************************************************)
(* Inputs of the session.                                                  *)
(***************************************************************************)
SessionExtractions ==
  { [outcome |-> "no_key"], [outcome |-> "api_error"],
    [outcome |-> "reply", content |-> <<"NAME:", " ", "text">>],
    [outcome |-> "reply",
     content |-> <<"EXPERIENCE:", "\n", "-", " ", "did this">>] }

\* what the user may leave in the editor, the empty text included
EditedTexts ==
  { <<>>, <<"\\documentclass{article}", "\n", "\\begin{document}", "\n", "\\end{document}">>,
    <<"\\documentclass{article}">> }

\* what the collaborator of edit_latex_with_ai may do
AiReplies ==
  { [outcome |-> "no_key"], [outcome |-> "api_error"],
    [outcome |-> "reply", content |-> <<"\\documentclass{report}", "\n">>],
    [outcome |-> "reply",
     content |-> <<CodeFence, "latex", "\n", "\\documentclass{report}", "\n", CodeFence>>],
    [outcome |-> "reply", content |-> <<CodeFence, "\n", "\\documentclass{book}">>] }

\* the most times a failed AI modification is applied to a text
MaxModifications == 2

\* the number of times "% Error editing LaTeX: " stands in a text
Modifications(code) ==
  Cardinality({i \in 1..Len(code) : code[i] = "% Error editing LaTeX: "})

(***************************************************************************)
(* The session as a state machine.                                         *)
(***************************************************************************)
InitSession ==
  /\ resume_text = None
  /\ scores \in Analyses
  /\ dominant_role = scores.dominant_role
  /\ rewritten_summary = <<"Results-driven engineer.">>
  /\ generation_type = "Full Resume"
  /\ extraction = NotCalled
  /\ latex_code = <<>>
  /\ compiled_pdf = NoPdf
  /\ ValidatorIdle
  /\ CallsIdle
  /\ ChatIdle
  /\ SandboxIdle

\* lines 654-677: the button "Generate LaTeX Code" in the mode chosen.  When
\* generate_latex_from_resume raises, the run ends there.  The editor of the
\* same run then shows the new text.
GenerateClicked ==
  \E chosen \in {"Full Resume", "Summary Only"}, extract \in SessionExtractions :
    LET latex == IF chosen = "Full Resume"
                   THEN generate_latex_from_resume(extract, rewritten_summary,
                                                   scores.dominant_role, scores.scores)
                   ELSE Returned(generate_simple_latex(
                                   <<"Your Name">>, <<"email@example.com | (555) 123-4567">>,
                                   rewritten_summary, scores.dominant_role))
    IN /\ generation_type' = chosen
       /\ extraction' = IF chosen = "Full Resume" THEN extract ELSE NotCalled
       /\ IF latex.raised
            THEN UNCHANGED <<latex_code, compiled_pdf>>
            ELSE latex_code' = latex.text /\ compiled_pdf' = NoPdf
       /\ UNCHANGED <<scorerVars, rewritten_summary, dominant_role, validatorVars,
                      callVars, chatVars, sandboxVars>>

\* lines 730-765 and 803-811: one of the two compile buttons, then the
\* editor with the text the user left in it
Compile ==
  /\ latex_code # <<>>
  /\ \E compiled \in CompileResults(latex_code), edited_latex \in EditedTexts \cup {latex_code} :
       LET session == EditLatex(latex_code,
                                CompileClicked(latex_code, compiled_pdf, compiled),
                                edited_latex)
       IN /\ latex_code' = session.latex_code
          /\ compiled_pdf' = session.compiled_pdf
  /\ UNCHANGED <<scorerVars, extraction, rewritten_summary, dominant_role,
                 generation_type, validatorVars, callVars, chatVars, sandboxVars>>

\* lines 785-800: the button "Apply AI Modification"; the run ends with
\* st.rerun(), or where edit_latex_with_ai raises
ApplyAiModification ==
  /\ latex_code # <<>>
  /\ Modifications(latex_code) < MaxModifications
  /\ \E reply \in AiReplies :
       LET new_latex == edit_latex_with_ai(latex_code, reply)
       IN IF new_latex.raised
            THEN UNCHANGED <<latex_code, compiled_pdf>>
            ELSE latex_code' = new_latex.text /\ compiled_pdf' = NoPdf
  /\ UNCHANGED <<scorerVars, extraction, rewritten_summary, dominant_role,
                 generation_type, validatorVars, callVars, chatVars, sandboxVars>>

\* lines 803-811: a run started by a change of the editor's text
EditDirectly ==
  /\ latex_code # <<>>
  /\ \E edited_latex \in EditedTexts :
       LET session == EditLatex(latex_code, compiled_pdf, edited_latex)
       IN /\ latex_code' = session.latex_code
          /\ compiled_pdf' = session.compiled_pdf
  /\ UNCHANGED <<scorerVars, extraction, rewritten_summary, dominant_role,
                 generation_type, validatorVars, callVars, chatVars, sandboxVars>>

NextSession == GenerateClicked \/ Compile \/ ApplyAiModification \/ EditDirectly

SpecSession == InitSession /\ [][NextSession]_vars

(***************************************************************************)
(* Properties of the session (SpecSession).                                *)
(***************************************************************************)
\* C28: whenever compiled_pdf is set, it is the PDF of the session's current
\* latex_code.
C28_PdfOfCurrentCode ==
  compiled_pdf # NoPdf => compiled_pdf = PdfOf(latex_code)

\* a PDF compiled from a text the user typed into the editor
C28_Witness ==
  /\ compiled_pdf # NoPdf
  /\ latex_code \in EditedTexts
  /\ extraction # NotCalled

(***************************************************************************)
(* chat_assistant.py: ChatAssistant.  A message is a record of a role and  *)
(* a content, a content a sequence of pieces of text.                      *)
(***************************************************************************)
Message(role, content) == [role |-> role, content |-> content]

\* line 33: self.system_prompt
system_prompt == <<"You are an AI assistant for RoleColorAI, a resume intelligence system.">>

\* lines 79-107: _build_context_message, the empty string without context
build_context_message(ctx) ==
  IF ctx = {} THEN <<>>
  ELSE <<"\n[Context]\n">>
         \o (IF "scores" \in ctx THEN <<"Current RoleColor scores", "Dominant RoleColor">> ELSE <<>>)
         \o (IF "summary" \in ctx THEN <<"Current summary">> ELSE <<>>)
         \o <<"\n">>

\* variant: the first n entries of the list
FirstEntries(s, n) == IF Len(s) > n THEN SubSeq(s, 1, n) ELSE s

\* s[-n:], the last n entries of the list, all of it when it has fewer
LastEntries(s, n) == IF Len(s) > n THEN SubSeq(s, Len(s) - n + 1, Len(s)) ELSE s

\* lines 118-130: the messages of the request
RequestMessages(history, ctx, user_message) ==
  <<Message("system", system_prompt)>>
    \o (IF build_context_message(ctx) # <<>>
          THEN <<Message("system", build_context_message(ctx))>> ELSE <<>>)
    \o LastEntries(history, 20)
    \o <<Message("user", user_message)>>

\* lines 109-150: chat, given what the completion call does:
\*   "reply"      it returns a reply with the text `content'
\*   "api_error"  it raises
\*   "no_choices" it returns a reply without choices, so choices[0] raises
\* The value is the history the call leaves, the messages it sent and the
\* string it returns.
chat(history, ctx, user_message, completion) ==
  LET messages == RequestMessages(history, ctx, user_message)
  IN IF completion.outcome = "reply"
       THEN [conversation_history |->
               Append(Append(history, Message("user", user_message)),
                      Message("assistant", completion.content)),
             messages |-> messages,
             returned |-> completion.content]
       ELSE [conversation_history |-> history,
             messages |-> messages,
             returned |-> <<"Sorry, I encountered an error: ", completion.outcome>>]

(***************************************************************************)
(* Inputs of the chat assistant.                                           *)
(***************************************************************************)
\* the most exchanges (a user message and its reply) in the history
MaxExchanges == 12

UserMessages == { <<"What does my score mean?">>, <<"Make it shorter.">> }

Completions ==
  { [outcome |-> "reply", content |-> <<"Here is my advice.">>],
    [outcome |-> "api_error"], [outcome |-> "no_choices"] }

\* the keys of the context that hold a value
Contexts == { {}, {"scores", "summary"} }

\* no call of chat since the assistant was made or its history cleared
NoCall == [no_call |-> TRUE]

(***************************************************************************)
(* The chat assistant as a state machine.                                  *)
(***************************************************************************)
InitChat ==
  /\ resume_text = None
  /\ scores = Pending
  /\ extraction = None
  /\ rewritten_summary = None
  /\ dominant_role = None
  /\ generation_type = None
  /\ latex_code = Pending
  /\ ValidatorIdle
  /\ CallsIdle
  /\ compiled_pdf = NoPdf
  /\ SandboxIdle
  /\ conversation_history = <<>>
  /\ context \in Contexts
  /\ chat_call = NoCall

\* one call of chat
Chat ==
  \E user_message \in UserMessages, completion \in Completions :
    LET call == chat(conversation_history, context, user_message, completion)
    IN /\ completion.outcome = "reply" => Len(conversation_history) < 2 * MaxExchanges
       /\ conversation_history' = call.conversation_history
       /\ chat_call' = [history_before |-> conversation_history,
                        user_message |-> user_message,
                        completion |-> completion.outcome,
                        messages |-> call.messages,
                        returned |-> call.returned]
       /\ UNCHANGED <<scorerVars, rendererVars, validatorVars, callVars, compiled_pdf,
                      sandboxVars, context>>

\* lines 192-194
ClearHistory ==
  /\ conversation_history' = <<>>
  /\ chat_call' = NoCall
  /\ UNCHANGED <<scorerVars, rendererVars, validatorVars, callVars, compiled_pdf,
                 sandboxVars, context>>

\* lines 62-77: set_context with scores and a summary, as app.py line 322
SetContext ==
  /\ context' = context \cup {"scores", "summary"}
  /\ context' # context
  /\ UNCHANGED <<scorerVars, rendererVars, validatorVars, callVars, compiled_pdf,
                 sandboxVars, conversation_history, chat_call>>

\* lines 196-199
ClearContext ==
  /\ context' = {}
  /\ conversation_history' = <<>>
  /\ chat_call' = NoCall
  /\ UNCHANGED <<scorerVars, rendererVars, validatorVars, callVars, compiled_pdf,
                 sandboxVars>>

NextChat == Chat \/ ClearHistory \/ SetContext \/ ClearContext

SpecChat == InitChat /\ [][NextChat]_vars

(***************************************************************************)
(* Properties of the chat assistant (SpecChat).                            *)
(***************************************************************************)
\* the entries of the history among the messages of a request: those
\* between the system messages and the message of the user
HistorySent(messages) ==
  SelectSeq(SubSeq(messages, 1, Len(messages) - 1), LAMBDA m : m.role # "system")

\* C29: the history has an even number of entries; after a call that got a
\* reply it is the history before the call with the user message and the
\* reply appended; after a call that failed it is the history before the
\* call, and the call returned an error string; the request of every call
\* held the last 20 entries of the history before it, or all when fewer.
C29_HistoryConsistent ==
  /\ Len(conversation_history) % 2 = 0
  /\ chat_call # NoCall =>
       LET before == chat_call.history_before
           sent == HistorySent(chat_call.messages)
       IN /\ chat_call.completion = "reply" =>
               /\ Len(conversation_history) = Len(before) + 2
               /\ SubSeq(conversation_history, 1, Len(before)) = before
               /\ conversation_history[Len(before) + 1]
                    = [role |-> "user", content |-> chat_call.user_message]
               /\ conversation_history[Len(before) + 2]
                    = [role |-> "assistant", content |-> chat_call.returned]
          /\ chat_call.completion # "reply" =>
               /\ conversation_history = before
               /\ chat_call.returned[1] = "Sorry, I encountered an error: "
          /\ Len(sent) <= 20
          /\ Len(sent) = IF Len(before) < 20 THEN Len(before) ELSE 20
          /\ \A i \in 1..Len(sent) : sent[i] = before[Len(before) - Len(sent) + i]

\* a call made with 22 entries in the history that got a reply: the request
\* held the last 20, which are not the first 20, and the history has 24
C29_Witness ==
  /\ chat_call # NoCall
  /\ Len(chat_call.history_before) = 22
  /\ Len(HistorySent(chat_call.messages)) = 20
  /\ HistorySent(chat_call.messages) # SubSeq(chat_call.history_before, 1, 20)
  /\ chat_call.completion = "reply"
  /\ Len(conversation_history) = 24

(***************************************************************************)
(* e2b_runner.py: compile_latex_in_sandbox, one step of the model for each *)
(* call it makes outside the program.  The text of an exception is a       *)
(* sequence of words.                                                      *)
(***************************************************************************)
\* str.lower on the words of the messages
LowerWord(w) ==
  CASE w = "WebSocket" -> "websocket"
    [] w = "Connection" -> "connection"
    [] w = "Unauthorized" -> "unauthorized"
    [] w = "Timeout" -> "timeout"
    [] OTHER -> w

HasWord(msg, w) == \E i \in 1..Len(msg) : msg[i] = w

HasLowerWord(msg, w) == \E i \in 1..Len(msg) : LowerWord(msg[i]) = w

\* lines 117-148: the error message made of the exception caught
ErrorMessageOf(e) ==
  LET original_error == <<e.type>> \o e.msg
  IN IF HasWord(e.msg, "WebSocket") \/ HasLowerWord(e.msg, "connection")
       THEN <<"Connection error: ">> \o original_error
     ELSE IF \/ \E x \in {"api_key", "unauthorized", "authentication", "invalid key"} :
                  HasLowerWord(e.msg, x)
             \/ HasWord(e.msg, "401")
       THEN <<"API key error: Please verify your E2B_API_KEY is correct and active.">>
     ELSE IF HasWord(e.msg, "403") \/ HasLowerWord(e.msg, "forbidden")
       THEN <<"Access forbidden.">>
     ELSE IF HasWord(e.msg, "404") \/ HasLowerWord(e.msg, "not found")
       THEN <<"Resource not found.">>
     ELSE IF HasLowerWord(e.msg, "timeout")
       THEN <<"Operation timed out.">>
     ELSE IF HasLowerWord(e.msg, "template")
       THEN <<"Template error: ">> \o original_error
     ELSE IF \E x \in {"quota", "limit", "rate"} : HasLowerWord(e.msg, x)
       THEN <<"Rate limit or quota exceeded.">>
     ELSE <<"E2B Error: ">> \o original_error

\* lines 150-155: the result of the handler of the outer try
ExceptionResult(e) ==
  [success |-> FALSE, error |-> ErrorMessageOf(e), log |-> <<>>, pdf_data |-> NoPdf]

\* lines 42-48, 54-59, 61-67: a result made before the sandbox
EarlyResult(error) ==
  [success |-> FALSE, error |-> error, log |-> <<>>, pdf_data |-> NoPdf]

\* lines 90-95
InstallFailedResult(install_result) ==
  [success |-> FALSE,
   error |-> <<"Failed to install LaTeX: ">> \o install_result.stderr,
   log |-> install_result.stdout]

\* base64.b64encode(pdf_content).decode('utf-8')
b64encode(pdf_content) == [b64 |-> pdf_content]

\* lines 108-113
PdfResult(pdf_content, compile_result) ==
  [success |-> TRUE, pdf_data |-> b64encode(pdf_content),
   log |-> compile_result.stdout, error |-> <<>>]

\* lines 114-119
NoPdfResult(compile_result) ==
  [success |-> FALSE,
   error |-> <<"PDF not generated. LaTeX errors: ">> \o compile_result.stderr,
   log |-> compile_result.stdout]

\* line 69: sandbox = None
NoSandbox == [no_sandbox |-> TRUE]

\* line 74: the sandbox Sandbox.create returns
NewSandbox == [state |-> "running", files |-> {}, kill_calls |-> 0]

\* no result yet
NoResult == [no_result |-> TRUE]

\* variant: the sandbox is left alone
KillSandboxSkipped(sb, state_after) == sb

\* lines 159-161: sandbox.kill(), an exception of which is swallowed;
\* state_after is the state the call leaves the sandbox in
KillSandbox(sb, state_after) ==
  [sb EXCEPT !.state = state_after, !.kill_calls = @ + 1]

(***************************************************************************)
(* Inputs of the sandbox compilation.                                      *)
(***************************************************************************)
SandboxLatex ==
  { <<>>,
    <<"\\documentclass{article}", "\\begin{document}", "Hello", "\\end{document}">>,
    <<"\\documentclass{article}", "\\begin{document}", "\\undefined">> }

\* E2B_API_KEY, split after its first four characters
ApiKeys == { <<>>, <<"e2b_", "0123">>, <<"sk-p", "roj">> }

\* the exceptions the calls of the E2B SDK raise
Exceptions ==
  { [type |-> "[SandboxException]", msg |-> <<"WebSocket", "closed">>],
    [type |-> "[ConnectionError]", msg |-> <<"Connection", "refused">>],
    [type |-> "[AuthenticationException]", msg |-> <<"401", "Unauthorized">>],
    [type |-> "[SandboxException]", msg |-> <<"403">>],
    [type |-> "[NotFoundException]", msg |-> <<"sandbox", "not found">>],
    [type |-> "[TimeoutException]", msg |-> <<"Timeout", "reached">>],
    [type |-> "[TemplateException]", msg |-> <<"template", "missing">>],
    [type |-> "[RateLimitException]", msg |-> <<"rate", "limit">>],
    [type |-> "[SandboxException]", msg |-> <<"out", "of", "memory">>] }

\* what a command run in the sandbox gives
CommandResults ==
  { [exit_code |-> 0, stdout |-> <<"done">>, stderr |-> <<>>],
    [exit_code |-> 1, stdout |-> <<>>, stderr |-> <<"failed">>] }

(***************************************************************************)
(* compile_latex_in_sandbox as a state machine: pc.at is the next step of  *)
(* the call, "returned" after the call has returned.                       *)
(***************************************************************************)
InitSandbox ==
  /\ resume_text = None
  /\ scores = Pending
  /\ extraction = None
  /\ rewritten_summary = None
  /\ dominant_role = None
  /\ generation_type = None
  /\ latex_code \in SandboxLatex
  /\ ValidatorIdle
  /\ CallsIdle
  /\ compiled_pdf = NoPdf
  /\ ChatIdle
  /\ sandbox = NoSandbox
  /\ pc = [at |-> "import"]
  /\ sandbox_result = NoResult

\* return a result: it is kept while the finally clause runs
Return(result) ==
  /\ sandbox_result' = result
  /\ pc' = [at |-> "finally"]

\* lines 41-48: from e2b import Sandbox
ImportE2b ==
  /\ pc.at = "import"
  /\ \E installed \in BOOLEAN :
       IF installed
         THEN /\ pc' = [at |-> "key"]
              /\ UNCHANGED sandbox_result
         ELSE /\ pc' = [at |-> "returned"]
              /\ sandbox_result' = EarlyResult(<<"E2B package not installed. Run: pip install e2b">>)
  /\ UNCHANGED <<scorerVars, rendererVars, validatorVars, callVars, compiled_pdf,
                 chatVars, sandbox>>

\* lines 51-67: the API key and its form
GetApiKey ==
  /\ pc.at = "key"
  /\ \E api_key \in ApiKeys :
       IF api_key = <<>>
         THEN /\ pc' = [at |-> "returned"]
              /\ sandbox_result' = EarlyResult(<<"E2B_API_KEY not found in environment variables">>)
       ELSE IF api_key[1] # "e2b_"
         THEN /\ pc' = [at |-> "returned"]
              /\ sandbox_result' = EarlyResult(<<"E2B API key appears invalid.", api_key[1]>>)
       ELSE /\ pc' = [at |-> "create"]
            /\ UNCHANGED sandbox_result
  /\ UNCHANGED <<scorerVars, rendererVars, validatorVars, callVars, compiled_pdf,
                 chatVars, sandbox>>

\* lines 69-75: Sandbox.create
SandboxCreate ==
  /\ pc.at = "create"
  /\ \/ /\ sandbox' = NewSandbox
        /\ pc' = [at |-> "write"]
        /\ UNCHANGED sandbox_result
     \/ \E e \in Exceptions :
          /\ Return(ExceptionResult(e))
          /\ UNCHANGED sandbox
  /\ UNCHANGED <<scorerVars, rendererVars, validatorVars, callVars, compiled_pdf, chatVars>>

\* lines 77-79: sandbox.files.write
FilesWrite ==
  /\ pc.at = "write"
  /\ \/ /\ sandbox' = [sandbox EXCEPT !.files = @ \cup {"resume.tex"}]
        /\ pc' = [at |-> "install"]
        /\ UNCHANGED sandbox_result
     \/ \E e \in Exceptions :
          /\ Return(ExceptionResult(e))
          /\ UNCHANGED sandbox
  /\ UNCHANGED <<scorerVars, rendererVars, validatorVars, callVars, compiled_pdf, chatVars>>

\* lines 84-95: the installation of LaTeX
InstallLatex ==
  /\ pc.at = "install"
  /\ \/ \E install_result \in CommandResults :
          IF install_result.exit_code # 0
            THEN Return(InstallFailedResult(install_result))
            ELSE /\ pc' = [at |-> "compile"]
                 /\ UNCHANGED sandbox_result
     \/ \E e \in Exceptions : Return(ExceptionResult(e))
  /\ UNCHANGED <<scorerVars, rendererVars, validatorVars, callVars, compiled_pdf,
                 chatVars, sandbox>>

\* lines 97-99: pdflatex, whose exit code is not looked at
RunPdflatex ==
  /\ pc.at = "compile"
  /\ \/ \E compile_result \in CommandResults, made \in BOOLEAN :
          /\ pc' = [at |-> "read", compile_result |-> compile_result]
          /\ sandbox' = IF made THEN [sandbox EXCEPT !.files = @ \cup {"resume.pdf"}]
                                ELSE sandbox
          /\ UNCHANGED sandbox_result
     \/ \E e \in Exceptions :
          /\ Return(ExceptionResult(e))
          /\ UNCHANGED sandbox
  /\ UNCHANGED <<scorerVars, rendererVars, validatorVars, callVars, compiled_pdf, chatVars>>

\* lines 101-119: sandbox.files.read under the inner try; the read fails
\* when the file is missing and may fail when it is there
ReadPdf ==
  /\ pc.at = "read"
  /\ \/ /\ "resume.pdf" \in sandbox.files
        /\ Return(PdfResult(PdfOf(latex_code), pc.compile_result))
     \/ Return(NoPdfResult(pc.compile_result))
  /\ UNCHANGED <<scorerVars, rendererVars, validatorVars, callVars, compiled_pdf,
                 chatVars, sandbox>>

\* lines 156-161: the finally clause
Finally ==
  /\ pc.at = "finally"
  /\ IF sandbox # NoSandbox
       THEN \E state_after \in {"killed", "running"} :
              sandbox' = KillSandbox(sandbox, state_after)
       ELSE UNCHANGED sandbox
  /\ pc' = [at |-> "returned"]
  /\ UNCHANGED <<scorerVars, rendererVars, validatorVars, callVars, compiled_pdf,
                 chatVars, sandbox_result>>

NextSandbox ==
  \/ ImportE2b
  \/ GetApiKey
  \/ SandboxCreate
  \/ FilesWrite
  \/ InstallLatex
  \/ RunPdflatex
  \/ ReadPdf
  \/ Finally

SpecSandbox == InitSandbox /\ [][NextSandbox]_vars

(***************************************************************************)
(* Properties of the sandbox compilation (SpecSandbox).                    *)
(***************************************************************************)
\* the call has returned and had made a sandbox
ReturnedAfterCreation == pc.at = "returned" /\ sandbox # NoSandbox

=============================================================================
